---- MODULE Spec2Model ----
(***************************************************************************)
(* RAG-Chat: the retrieval and answer pipeline (lib/rag.ts in its hybrid   *)
(* and its multi-query version, lib/supabase.ts, the chat and query        *)
(* routes).                                                                *)
(*                                                                         *)
(* Strings are TLA+ strings; a similarity is an integer number of 1/120:   *)
(* every constant of the code (0.05, 0.1, 0.15, 0.2, 0.3, 0.5/n for n in   *)
(* 1..5, 0.9, 1.0) is a whole number of 1/120, so the arithmetic below is  *)
(* exact where the code uses IEEE doubles.                                 *)
(***************************************************************************)
EXTENDS Integers, Sequences, FiniteSets, TLC

(***************************************************************************)
(* String primitives of JavaScript used by the code.                       *)
(***************************************************************************)
UpperChars == "ABCDEFGHIJKLMNOPQRSTUVWXYZ"
LowerChars == "abcdefghijklmnopqrstuvwxyz"
DigitChars == "0123456789"
SpaceChars == " \n\t"

Char(s, i) == SubSeq(s, i, i)

InClass(c, cls) == \E i \in 1..Len(cls) : Char(cls, i) = c

CharSet(cls) == {Char(cls, i) : i \in 1..Len(cls)}
UpperSet == CharSet(UpperChars)
LowerSet == CharSet(LowerChars)
DigitSet == CharSet(DigitChars)
SpaceSet == CharSet(SpaceChars)

IsUpper(c) == c \in UpperSet
IsLower(c) == c \in LowerSet
IsDigit(c) == c \in DigitSet
IsSpace(c) == c \in SpaceSet
\* \w of a JavaScript regular expression
IsWordChar(c) == IsUpper(c) \/ IsLower(c) \/ IsDigit(c) \/ c = "_"

LowerOf(c) ==
  IF IsUpper(c)
    THEN Char(LowerChars, CHOOSE i \in 1..Len(UpperChars) : Char(UpperChars, i) = c)
    ELSE c

\* the characters lo..hi of s, each replaced: by its lower case, or by a
\* space when it is neither a word character nor white space
RECURSIVE MapChars(_, _, _, _)
MapChars(s, lo, hi, kind) ==
  IF lo > hi THEN ""
  ELSE IF lo = hi
    THEN LET c == Char(s, lo)
         IN IF kind = "lower" THEN LowerOf(c)
            ELSE IF IsWordChar(c) \/ IsSpace(c) THEN c ELSE " "
    ELSE LET mid == (lo + hi) \div 2
         IN MapChars(s, lo, mid, kind) \o MapChars(s, mid + 1, hi, kind)

\* String.prototype.toLowerCase
toLowerCase(s) == MapChars(s, 1, Len(s), "lower")

\* s.replace(/[^\w\s]/g, ' ')
replaceNonWord(s) == MapChars(s, 1, Len(s), "punct")

\* String.prototype.includes
includes(s, k) ==
  \/ Len(k) = 0
  \/ \E i \in 1..(Len(s) - Len(k) + 1) : SubSeq(s, i, i + Len(k) - 1) = k

\* /a|b|c/.test(s) for alternatives that are literal strings
testAny(alts, s) == \E a \in alts : includes(s, a)

\* xs.sort((a, b) => a - b) on distinct numbers
RECURSIVE SortAsc(_)
SortAsc(set) ==
  IF set = {} THEN <<>>
  ELSE LET m == CHOOSE x \in set : \A y \in set : x <= y
       IN <<m>> \o SortAsc(set \ {m})

\* the maximal runs of s whose characters all satisfy (word = TRUE) \w or
\* (word = FALSE) \S, in order
Runs(s, word) ==
  LET in(i) == IF word THEN IsWordChar(Char(s, i)) ELSE ~IsSpace(Char(s, i))
      starts == SortAsc({i \in 1..Len(s) : in(i) /\ (i = 1 \/ ~in(i - 1))})
      endOf(i) == CHOOSE j \in i..Len(s) :
                    /\ \A m \in i..j : in(m)
                    /\ (j = Len(s) \/ ~in(j + 1))
  IN [n \in DOMAIN starts |-> SubSeq(s, starts[n], endOf(starts[n]))]

\* s.split(/\s+/): white space at the start or at the end of s gives an
\* empty first or last element
splitWhitespace(s) ==
  IF Len(s) = 0 THEN <<"">>
  ELSE (IF IsSpace(Char(s, 1)) THEN <<"">> ELSE <<>>)
       \o Runs(s, FALSE)
       \o (IF IsSpace(Char(s, Len(s))) THEN <<"">> ELSE <<>>)

\* String.prototype.trim
trim(s) ==
  IF \A i \in 1..Len(s) : IsSpace(Char(s, i)) THEN ""
  ELSE LET first == CHOOSE i \in 1..Len(s) :
                      ~IsSpace(Char(s, i)) /\ \A j \in 1..(i - 1) : IsSpace(Char(s, j))
           \* the number of characters from the last solid one to the end
           back == CHOOSE k \in 1..Len(s) :
                     /\ ~IsSpace(Char(s, Len(s) + 1 - k))
                     /\ \A j \in 1..(k - 1) : IsSpace(Char(s, Len(s) + 1 - j))
       IN SubSeq(s, first, Len(s) + 1 - back)

\* Array.prototype.join
RECURSIVE join(_, _)
join(xs, sep) ==
  IF Len(xs) = 0 THEN ""
  ELSE IF Len(xs) = 1 THEN xs[1]
  ELSE xs[1] \o sep \o join(Tail(xs), sep)

(***************************************************************************)
(* Sequence helpers: filter, [...new Set(xs)], slice(0, n).                *)
(***************************************************************************)
Range(xs) == {xs[i] : i \in DOMAIN xs}

RECURSIVE SelectIdx(_, _, _)
SelectIdx(xs, keep, i) ==
  IF i > Len(xs) THEN <<>>
  ELSE (IF i \in keep THEN <<xs[i]>> ELSE <<>>) \o SelectIdx(xs, keep, i + 1)

\* the elements of xs in order, each value kept at its first occurrence only
Dedup(xs) ==
  SelectIdx(xs, {i \in DOMAIN xs : \A j \in 1..(i - 1) : xs[j] # xs[i]}, 1)

\* Array.prototype.slice(0, n) for n >= 0
slice0(xs, n) == SubSeq(xs, 1, IF n < Len(xs) THEN n ELSE Len(xs))

(***************************************************************************)
(* A small matcher for the regular expressions the code tests: a pattern   *)
(* is a sequence of atoms, a regular expression a set of patterns          *)
(* (its top-level alternatives).                                           *)
(*   [k |-> "lit", v |-> str]   the literal str                            *)
(*   [k |-> "alt", v |-> set]   one of the literals of set                 *)
(*   [k |-> "cls", v |-> str]   one character out of str                   *)
(*   [k |-> "ws+"], [k |-> "ws*"], [k |-> "d+"], [k |-> "d"]               *)
(***************************************************************************)
Lit(str) == [k |-> "lit", v |-> str]
Alt(set) == [k |-> "alt", v |-> set]
Cls(str) == [k |-> "cls", v |-> str]
WsPlus == [k |-> "ws+", v |-> ""]
WsStar == [k |-> "ws*", v |-> ""]
DPlus == [k |-> "d+", v |-> ""]
DOne == [k |-> "d", v |-> ""]

LitAt(s, i, str) == i + Len(str) - 1 <= Len(s) /\ SubSeq(s, i, i + Len(str) - 1) = str

\* the lengths n such that s[i .. i+n-1] consists of characters of the class
RunLens(s, i, isDigit, min) ==
  {n \in min..(Len(s) - i + 1) :
     \A j \in i..(i + n - 1) :
        IF isDigit THEN IsDigit(Char(s, j)) ELSE IsSpace(Char(s, j))}

RECURSIVE MatchFrom(_, _, _, _)
MatchFrom(s, i, pat, a) ==
  IF a > Len(pat) THEN TRUE
  ELSE LET atom == pat[a] IN
    CASE atom.k = "lit" -> LitAt(s, i, atom.v) /\ MatchFrom(s, i + Len(atom.v), pat, a + 1)
      [] atom.k = "alt" -> \E str \in atom.v :
                              LitAt(s, i, str) /\ MatchFrom(s, i + Len(str), pat, a + 1)
      [] atom.k = "cls" -> i <= Len(s) /\ InClass(Char(s, i), atom.v)
                              /\ MatchFrom(s, i + 1, pat, a + 1)
      [] atom.k = "ws+" -> \E n \in RunLens(s, i, FALSE, 1) : MatchFrom(s, i + n, pat, a + 1)
      [] atom.k = "ws*" -> \E n \in RunLens(s, i, FALSE, 0) : MatchFrom(s, i + n, pat, a + 1)
      [] atom.k = "d+" -> \E n \in RunLens(s, i, TRUE, 1) : MatchFrom(s, i + n, pat, a + 1)
      [] atom.k = "d" -> i <= Len(s) /\ IsDigit(Char(s, i)) /\ MatchFrom(s, i + 1, pat, a + 1)

\* RegExp.prototype.test
regexTest(re, s) == \E pat \in re : \E i \in 1..(Len(s) + 1) : MatchFrom(s, i, pat, 1)

(***************************************************************************)
(* Question types (lib/rag.ts, hybrid version).                            *)
(***************************************************************************)
\* the tests with the comparison test moved to the front
detectQuestionType_ComparisonFirst(query) ==
  LET q == toLowerCase(query)
      tests ==
        << <<"comparison", {"difference", "compare", "vs", "versus", "distinguish",
                            "contrast", "similar", "between"}>>,
           <<"location", {"where", "position", "location", "located", "place", "found in",
                          "which page", "which section", "which chapter", "which part"}>>,
           <<"listing", {"list", "what are the", "types of", "kinds of", "categories",
                         "enumerate", "name all", "give all"}>>,
           <<"quantity", {"how many", "how much", "count", "number of", "total",
                          "percentage", "ratio"}>>,
           <<"procedure", {"how to", "steps", "procedure", "process", "method", "way to",
                           "instructions"}>>,
           <<"cause_effect", {"why", "cause", "effect", "result", "consequence", "reason",
                              "because", "leads to"}>>,
           <<"property", {"properties", "characteristics", "features", "attributes",
                          "qualities", "aspects"}>>,
           <<"example", {"example", "instance", "such as", "like what", "give me",
                         "show me"}>>,
           <<"time", {"when", "time", "date", "period", "duration", "how long",
                      "before", "after"}>>,
           <<"definition", {"what is", "define", "meaning", "definition", "describe",
                            "explain what"}>>,
           <<"explanation", {"how does", "how do", "explain", "describe how", "works"}>> >>
      hits == {i \in DOMAIN tests : testAny(tests[i][2], q)}
  IN IF hits = {} THEN "general"
     ELSE tests[CHOOSE i \in hits : \A j \in hits : i <= j][1]

detectQuestionType(query) ==
  LET q == toLowerCase(query) IN
  IF testAny({"where", "position", "location", "located", "place", "found in",
              "which page", "which section", "which chapter", "which part"}, q)
    THEN "location"
  ELSE IF testAny({"list", "what are the", "types of", "kinds of", "categories",
                   "enumerate", "name all", "give all"}, q)
    THEN "listing"
  ELSE IF testAny({"how many", "how much", "count", "number of", "total",
                   "percentage", "ratio"}, q)
    THEN "quantity"
  ELSE IF testAny({"how to", "steps", "procedure", "process", "method", "way to",
                   "instructions"}, q)
    THEN "procedure"
  ELSE IF testAny({"why", "cause", "effect", "result", "consequence", "reason",
                   "because", "leads to"}, q)
    THEN "cause_effect"
  ELSE IF testAny({"properties", "characteristics", "features", "attributes",
                   "qualities", "aspects"}, q)
    THEN "property"
  ELSE IF testAny({"example", "instance", "such as", "like what", "give me", "show me"}, q)
    THEN "example"
  ELSE IF testAny({"when", "time", "date", "period", "duration", "how long",
                   "before", "after"}, q)
    THEN "time"
  ELSE IF testAny({"what is", "define", "meaning", "definition", "describe",
                   "explain what"}, q)
    THEN "definition"
  ELSE IF testAny({"difference", "compare", "vs", "versus", "distinguish", "contrast",
                   "similar", "between"}, q)
    THEN "comparison"
  ELSE IF testAny({"how does", "how do", "explain", "describe how", "works"}, q)
    THEN "explanation"
  ELSE "general"

(***************************************************************************)
(* Terms of a query.                                                       *)
(***************************************************************************)
IsAcronym(w) ==
  /\ Len(w) >= 2
  /\ IsUpper(Char(w, 1)) /\ IsUpper(Char(w, 2))
  /\ \A i \in 1..Len(w) : IsUpper(Char(w, i)) \/ IsDigit(Char(w, i))

\* query.match(/\b[A-Z]{2,}[A-Z0-9]*\b/g) || []: a match is a whole run of
\* word characters, because \b stands on both sides of it
matchAcronyms(query) ==
  LET runs == Runs(query, TRUE)
  IN SelectIdx(runs, {i \in DOMAIN runs : IsAcronym(runs[i])}, 1)

\* query.match(/"([^"]+)"/g)?.map(s => s.replace(/"/g, '')) || []
SetMin(set) == CHOOSE x \in set : \A y \in set : x <= y

RECURSIVE matchQuoted(_, _)
matchQuoted(s, from) ==
  LET quotes == {j \in from..Len(s) : Char(s, j) = "\""} IN
  IF quotes = {} THEN <<>>
  ELSE LET i == SetMin(quotes)
           closing == quotes \ {i}
       IN IF closing = {} THEN <<>>
          ELSE LET j == SetMin(closing) IN
               IF j = i + 1 THEN matchQuoted(s, i + 1)
               ELSE <<SubSeq(s, i + 1, j - 1)>> \o matchQuoted(s, j + 1)

BoundaryAfter(s, e) == e = Len(s) \/ ~IsWordChar(Char(s, e + 1))
BoundaryBefore(s, i) == i = 1 \/ ~IsWordChar(Char(s, i - 1))

\* the end of [A-Z][a-z]+ matched at i as a whole word, 0 if there is none
CapWordEnd(s, i) ==
  IF i + 1 <= Len(s) /\ IsUpper(Char(s, i)) /\ IsLower(Char(s, i + 1))
    THEN LET e == CHOOSE j \in (i + 1)..Len(s) :
                    /\ \A m \in (i + 1)..j : IsLower(Char(s, m))
                    /\ (j = Len(s) \/ ~IsLower(Char(s, j + 1)))
         IN IF BoundaryAfter(s, e) THEN e ELSE 0
    ELSE 0

\* the end of the greedy repetition (?:\s+[A-Z][a-z]+)* that starts after e
RECURSIVE CapExtend(_, _)
CapExtend(s, e) ==
  LET runs == RunLens(s, e + 1, FALSE, 1)
      next == {CapWordEnd(s, e + 1 + n) : n \in runs} \ {0}
  IN IF next = {} THEN e
     ELSE CapExtend(s, CHOOSE x \in next : TRUE)

\* query.match(/\b[A-Z][a-z]+(?:\s+[A-Z][a-z]+)*\b/g) || []
RECURSIVE matchCapitalized(_, _)
matchCapitalized(s, from) ==
  LET starts == {i \in from..Len(s) : BoundaryBefore(s, i) /\ CapWordEnd(s, i) # 0} IN
  IF starts = {} THEN <<>>
  ELSE LET i == SetMin(starts)
           e == CapExtend(s, CapWordEnd(s, i))
       IN <<SubSeq(s, i, e)>> \o matchCapitalized(s, e + 1)

TermStopWords ==
  {"what", "is", "the", "a", "an", "of", "in", "to", "for", "and", "or", "how",
   "does", "do", "are", "was", "were", "be", "been", "being", "have", "has", "had",
   "can", "could", "would", "should", "may", "might", "must", "will", "shall"}

KeywordStopWords ==
  TermStopWords \cup
  {"this", "that", "these", "those", "it", "its", "they", "them", "their", "there",
   "here", "where", "when", "why", "which", "who", "whom", "whose", "about",
   "between", "give", "me", "tell", "explain", "describe", "define", "list"}

searchHintsOf(questionType) ==
  CASE questionType = "definition" ->
         <<"definition", "meaning", "refers to", "is defined as", "is a">>
    [] questionType = "comparison" ->
         <<"difference", "compared to", "unlike", "whereas", "while", "but">>
    [] questionType = "location" ->
         <<"located", "found", "position", "placed", "situated">>
    [] questionType = "listing" ->
         <<"types", "kinds", "categories", "includes", "consists of", "such as">>
    [] questionType = "quantity" ->
         <<"number", "count", "total", "amount", "percentage">>
    [] questionType = "procedure" ->
         <<"step", "first", "then", "next", "finally", "process", "method">>
    [] questionType = "cause_effect" ->
         <<"because", "causes", "results in", "leads to", "due to", "therefore">>
    [] questionType = "property" ->
         <<"property", "characteristic", "feature", "attribute", "has", "contains">>
    [] questionType = "example" ->
         <<"example", "instance", "such as", "like", "for instance">>
    [] questionType = "time" ->
         <<"when", "during", "before", "after", "while", "until">>
    [] questionType = "explanation" ->
         <<"works by", "functions", "operates", "mechanism", "through">>
    [] OTHER -> <<>>

extractSearchTerms(query, questionType) ==
  LET words == splitWhitespace(toLowerCase(query))
      primary == matchAcronyms(query) \o matchQuoted(query, 1) \o matchCapitalized(query, 1)
      isContext(w) == /\ w \notin TermStopWords
                      /\ Len(w) > 2
                      /\ ~\E i \in DOMAIN primary : toLowerCase(primary[i]) = w
      context == SelectIdx(words, {i \in DOMAIN words : isContext(words[i])}, 1)
  IN [primaryTerms |-> Dedup(primary),
      contextTerms |-> slice0(Dedup(context), 5),
      searchHints |-> searchHintsOf(questionType)]

extractKeywords(query) ==
  LET all == splitWhitespace(replaceNonWord(toLowerCase(query)))
      words == SelectIdx(all, {i \in DOMAIN all :
                                 Len(all[i]) > 2 /\ all[i] \notin KeywordStopWords}, 1)
      acronyms == matchAcronyms(query)
  IN Dedup([i \in DOMAIN acronyms |-> toLowerCase(acronyms[i])] \o words)

buildSearchQuery(query, questionType) ==
  LET t == extractSearchTerms(query, questionType)
      searchParts == t.primaryTerms \o slice0(t.contextTerms, 3)
  IN IF questionType = "definition" /\ Len(t.primaryTerms) > 0
       THEN join(t.primaryTerms, " ") \o " definition meaning characteristics"
     ELSE IF questionType = "comparison" /\ Len(t.primaryTerms) >= 2
       THEN t.primaryTerms[1] \o " " \o t.primaryTerms[2] \o " difference comparison"
     ELSE IF questionType = "procedure"
       THEN join(searchParts, " ") \o " steps process method how to"
     ELSE IF questionType = "listing"
       THEN join(searchParts, " ") \o " types kinds list categories"
     ELSE query

(***************************************************************************)
(* Configuration of lib/rag.ts.  The hybrid version and the multi-query    *)
(* version of the file set different values; the MQ_ names are those of    *)
(* the multi-query version.  Similarities are in 1/120.                    *)
(***************************************************************************)
SIMILARITY_THRESHOLD == 12
MAX_CONTEXT_LENGTH == 10000
RERANK_TOP_K == 6
MQ_SIMILARITY_THRESHOLD == 24
MQ_MAX_CONTEXT_LENGTH == 15000
\* 1.0, the cap of a boosted similarity
ONE == 120
\* +0.2 for a keyword-only result, +0.15 for a result of both searches
KEYWORD_ONLY_BOOST == 24
BOTH_BOOST == 18
\* 0.3 + (mc / n) * 0.5, capped at 0.9
KEYWORD_BASE == 36
KEYWORD_SPAN == 60
KEYWORD_CAP == 108
\* validKeywords.slice(0, 5)
MAX_KEYWORD_QUERIES == 5

Min(a, b) == IF a < b THEN a ELSE b

\* a descending sort that is not stable: equal keys come out in reverse order
SortDescByKeys_Unstable(xs, keys) ==
  LET ks == SubSeq(keys, 1, Len(keys))
      rank(i) == 1 + Cardinality({j \in DOMAIN xs :
                      ks[j] > ks[i] \/ (ks[j] = ks[i] /\ j > i)})
      ranks == SubSeq([i \in DOMAIN xs |-> rank(i)], 1, Len(xs))
  IN [r \in 1..Len(xs) |-> xs[CHOOSE i \in DOMAIN xs : ranks[i] = r]]

\* xs.sort((a, b) => key(b) - key(a)): descending, stable
SortDescByKeys(xs, keys) ==
  LET ks == SubSeq(keys, 1, Len(keys))
      rank(i) == 1 + Cardinality({j \in DOMAIN xs :
                      ks[j] > ks[i] \/ (ks[j] = ks[i] /\ j < i)})
      ranks == SubSeq([i \in DOMAIN xs |-> rank(i)], 1, Len(xs))
  IN [r \in 1..Len(xs) |-> xs[CHOOSE i \in DOMAIN xs : ranks[i] = r]]

(***************************************************************************)
(* The documents table (schema.sql) and the two searches of                *)
(* lib/supabase.ts.                                                        *)
(***************************************************************************)
Meta(name, page, idx) == [document_name |-> name, page_number |-> page, chunk_index |-> idx]

Row(id, content, meta) == [id |-> id, content |-> content, metadata |-> meta]

Store ==
  << Row(1, "NASA is the space agency of the United States.", Meta("a.pdf", 1, 0)),
     Row(2, "The Mars rover landed in 2021.", Meta("a.pdf", 1, 1)),
     Row(3, "A rover is a vehicle that explores Mars; the first step is landing.",
         Meta("a.pdf", 2, 2)),
     Row(4, "nasa", Meta("a.pdf", 3, 3)),
     Row(5, "Budget tables.", Meta("b.pdf", 1, 0)),
     Row(6, "NASA operates the Mars rover Perseverance. It is located in Jezero crater, found in 2021, and it refers to a mission of about 3 km per week.",
         Meta("b.pdf", 2, 1)),
     Row(7, "Index", Meta("b.pdf", 2, 2)),
     Row(8, "The agency refers to NASA as the administration.", Meta("b.pdf", 3, 3)) >>

Matched(row, sim) ==
  [id |-> row.id, content |-> row.content, metadata |-> row.metadata, similarity |-> sim]

\* metadata @> filter, and .eq("metadata->>document_name", filter.document_name);
\* documentFilter is "" when the request has none
FilterOk(row, documentFilter) ==
  documentFilter = "" \/ row.metadata.document_name = documentFilter

\* match_documents: the rows that pass the filter by descending similarity,
\* LIMIT match_count.  sims[id] is 1 - cosine distance of row id to the query
\* embedding.
MatchDocuments(sims, matchCount, documentFilter) ==
  LET rows == SelectIdx(Store, {i \in DOMAIN Store : FilterOk(Store[i], documentFilter)}, 1)
      hits == [i \in DOMAIN rows |-> Matched(rows[i], sims[rows[i].id])]
  IN slice0(SortDescByKeys(hits, [i \in DOMAIN hits |-> hits[i].similarity]), matchCount)

\* the rows one keyword query can select: content ILIKE %keyword% and the filter
IlikeRows(keyword, documentFilter) ==
  {i \in DOMAIN Store :
     /\ includes(toLowerCase(Store[i].content), toLowerCase(keyword))
     /\ FilterOk(Store[i], documentFilter)}

\* .limit(matchCount) without ORDER BY: any matchCount of the matching rows
LimitChoices(rows, matchCount) ==
  {c \in SUBSET rows : Cardinality(c) = Min(matchCount, Cardinality(rows))}

\* the loop body of searchDocumentsByKeywords on the rows data of one keyword
RECURSIVE CountMatches(_, _, _)
CountMatches(allResults, data, i) ==
  IF i > Len(data) THEN allResults
  ELSE LET doc == data[i]
           known == {j \in DOMAIN allResults : allResults[j].doc.id = doc.id}
       IN IF known # {}
            THEN CountMatches(
                   [j \in DOMAIN allResults |->
                      IF j \in known
                        THEN [allResults[j] EXCEPT !.matchCount = @ + 1]
                        ELSE allResults[j]], data, i + 1)
            ELSE CountMatches(
                   Append(allResults, [doc |-> Matched(doc, 60), matchCount |-> 1]),
                   data, i + 1)

\* the keyword score without the match ratio: the cap itself
KeywordSimilarity_AtCap(mc, total) == KEYWORD_CAP

KeywordSimilarity(mc, total) == Min(KEYWORD_BASE + (mc * KEYWORD_SPAN) \div total, KEYWORD_CAP)

\* the end of searchDocumentsByKeywords: score, sort, slice
KeywordResults(allResults, totalValid, matchCount) ==
  LET scored == [j \in DOMAIN allResults |->
                   [allResults[j].doc EXCEPT
                      !.similarity = KeywordSimilarity(allResults[j].matchCount, totalValid)]]
  IN slice0(SortDescByKeys(scored, [j \in DOMAIN scored |-> scored[j].similarity]),
            matchCount)

\* keywords.filter(k => k.length > 2)
validKeywordsOf(keywords) ==
  SelectIdx(keywords, {i \in DOMAIN keywords : Len(keywords[i]) > 2}, 1)

(***************************************************************************)
(* retrieveContext, hybrid version: merge, threshold, rerank.              *)
(***************************************************************************)
Ids(docs) == {docs[i].id : i \in DOMAIN docs}

\* AddUnseen without the seen check: every embedding result is pushed
AddUnseen_NoSeenCheck(allResults, docs, i) ==
  allResults \o SubSeq(docs, i, Len(docs))

RECURSIVE AddUnseen(_, _, _)
AddUnseen(allResults, docs, i) ==
  IF i > Len(docs) THEN allResults
  ELSE IF docs[i].id \in Ids(allResults)
    THEN AddUnseen(allResults, docs, i + 1)
    ELSE AddUnseen(Append(allResults, docs[i]), docs, i + 1)

\* AddKeyword without the else branch: a result both searches found keeps its
\* embedding similarity
AddKeyword_NewOnly(allResults, docs, i) ==
  LET fresh == SelectIdx(docs, {j \in i..Len(docs) :
                                  /\ docs[j].id \notin Ids(allResults)
                                  /\ \A m \in i..(j - 1) : docs[m].id # docs[j].id}, 1)
  IN allResults \o [j \in DOMAIN fresh |->
                      [fresh[j] EXCEPT !.similarity = @ + KEYWORD_ONLY_BOOST]]

RECURSIVE AddKeyword(_, _, _)
AddKeyword(allResults, docs, i) ==
  IF i > Len(docs) THEN allResults
  ELSE LET doc == docs[i] IN
    IF doc.id \notin Ids(allResults)
      THEN AddKeyword(
             Append(allResults, [doc EXCEPT !.similarity = @ + KEYWORD_ONLY_BOOST]),
             docs, i + 1)
      ELSE LET e == CHOOSE j \in DOMAIN allResults :
                      /\ allResults[j].id = doc.id
                      /\ \A m \in 1..(j - 1) : allResults[m].id # doc.id
           IN AddKeyword(
                [allResults EXCEPT ![e].similarity = Min(@ + BOTH_BOOST, ONE)],
                docs, i + 1)

\* the merge with the keyword results added first
MergeResults_KeywordFirst(embeddingResults, keywordResults) ==
  AddKeyword(AddUnseen(<<>>, keywordResults, 1), embeddingResults, 1)

MergeResults(embeddingResults, keywordResults) ==
  AddKeyword(AddUnseen(<<>>, embeddingResults, 1), keywordResults, 1)

FilterByThreshold(docs, threshold) ==
  SelectIdx(docs, {i \in DOMAIN docs : docs[i].similarity >= threshold}, 1)

CountIncluded(terms, contentLower, lower) ==
  Cardinality({i \in DOMAIN terms :
                 includes(contentLower, IF lower THEN toLowerCase(terms[i]) ELSE terms[i])})

TypePattern(questionType) ==
  CASE questionType = "definition" ->
         {<<Lit("is"), WsPlus, Alt({"a", "an", "the"}), WsPlus>>,
          <<Lit("defined"), WsPlus, Lit("as")>>,
          <<Lit("refers"), WsPlus, Lit("to")>>,
          <<Lit("means")>>}
    [] questionType = "listing" ->
         \* the bullet and dash alternatives of the source are not ASCII and
         \* cannot occur in the ASCII contents modelled here
         {<<DPlus, Lit(".")>>, <<Cls("-"), Cls(SpaceChars)>>,
          <<Alt({"first", "second", "third", "includes", "types"})>>}
    [] questionType = "procedure" ->
         {<<Lit("step"), WsStar, DOne>>,
          <<Alt({"first", "then", "next", "finally", "1.", "2.", "3."})>>}
    [] questionType = "quantity" ->
         {<<DPlus, Lit("%")>>,
          <<DPlus, WsStar,
            Alt({"percent", "times", "units", "km", "m", "kg", "g", "ml", "l"})>>}
    [] questionType = "comparison" ->
         {<<Alt({"however", "whereas", "while", "unlike", "but", "compared",
                 "difference"})>>}
    [] OTHER -> {}

\* the adjustment with <= 50 and <= 100 as the tests of the penalties
LengthAdjust_Inclusive(n) ==
  (IF n <= 50 THEN -20 ELSE 0) + (IF n <= 100 THEN -10 ELSE 0)
    + (IF n > 300 THEN 5 ELSE 0) + (IF n > 500 THEN 5 ELSE 0)

\* the -20/-10 penalties and +5/+5 bonuses on doc.content.length
LengthAdjust(n) ==
  (IF n < 50 THEN -20 ELSE 0) + (IF n < 100 THEN -10 ELSE 0)
    + (IF n > 300 THEN 5 ELSE 0) + (IF n > 500 THEN 5 ELSE 0)

\* rerankScore of one document, in 1/(60 * n) points where n is the number
\* of query keywords (1 when there is none): similarity * 100 is
\* similarity * 50 sixtieths, matchRatio * 20 is 1200 * matches / n sixtieths
RerankScore(doc, terms, queryKeywords, questionType) ==
  LET contentLower == toLowerCase(doc.content)
      n == IF Len(queryKeywords) > 0 THEN Len(queryKeywords) ELSE 1
      wordMatches == CountIncluded(queryKeywords, contentLower, TRUE)
      points == 8 * wordMatches
                + 25 * CountIncluded(terms.primaryTerms, contentLower, TRUE)
                + 10 * CountIncluded(terms.contextTerms, contentLower, TRUE)
                + 5 * CountIncluded(terms.searchHints, contentLower, FALSE)
                + (IF regexTest(TypePattern(questionType), contentLower) THEN 15 ELSE 0)
                + LengthAdjust(Len(doc.content))
  IN n * (doc.similarity * 50 + 60 * points)
     + (IF Len(queryKeywords) > 0 THEN 1200 * wordMatches ELSE 0)

\* rerankDocuments without the final slice(0, topK)
rerankDocuments_NoSlice(documents, query, questionType, topK) ==
  LET terms == extractSearchTerms(query, questionType)
      queryKeywords == extractKeywords(query)
  IN SortDescByKeys(documents,
       [i \in DOMAIN documents |->
          RerankScore(documents[i], terms, queryKeywords, questionType)])

rerankDocuments(documents, query, questionType, topK) ==
  LET terms == extractSearchTerms(query, questionType)
      queryKeywords == extractKeywords(query)
  IN slice0(SortDescByKeys(documents,
              [i \in DOMAIN documents |->
                 RerankScore(documents[i], terms, queryKeywords, questionType)]),
            topK)

(***************************************************************************)
(* retrieveContext, multi-query version (lib/rag.ts).                      *)
(***************************************************************************)
\* query.replace(/difference|compare|vs/gi, 'characteristics'), from position
\* from on
RECURSIVE replaceComparison(_, _)
replaceComparison(s, from) ==
  LET words == {"difference", "compare", "vs"}
      hits == {i \in from..Len(s) : \E w \in words : LitAt(toLowerCase(s), i, w)}
  IN IF hits = {} THEN SubSeq(s, from, Len(s))
     ELSE LET i == SetMin(hits)
              w == CHOOSE x \in words : LitAt(toLowerCase(s), i, x)
          IN SubSeq(s, from, i - 1) \o "characteristics"
             \o replaceComparison(s, i + Len(w))

RECURSIVE TermQueries(_, _)
TermQueries(terms, i) ==
  IF i > Len(terms) THEN <<>>
  ELSE <<"What is " \o terms[i] \o "?",
         terms[i] \o " definition characteristics properties">>
       \o TermQueries(terms, i + 1)

expandQuery(query) ==
  LET lowerQuery == toLowerCase(query)
      queries == <<query>> \o TermQueries(matchAcronyms(query), 1)
                 \o (IF testAny({"difference", "compare", "vs"}, lowerQuery)
                       THEN <<replaceComparison(query, 1)>> ELSE <<>>)
  IN slice0(queries, 3)

\* the loop body of the multi-query retrieveContext on the results of one query
RECURSIVE AddUnique(_, _, _)
AddUnique(allResults, results, i) ==
  IF i > Len(results) THEN allResults
  ELSE IF results[i].id \notin Ids(allResults)
          /\ results[i].similarity >= MQ_SIMILARITY_THRESHOLD
    THEN AddUnique(Append(allResults, results[i]), results, i + 1)
    ELSE AddUnique(allResults, results, i + 1)

\* allResults.sort((a, b) => b.similarity - a.similarity).slice(0, topK)
MultiQueryFinish(allResults, topK) ==
  slice0(SortDescByKeys(allResults, [i \in DOMAIN allResults |-> allResults[i].similarity]),
         topK)

(***************************************************************************)
(* formatContext and formatSources (the same code in both versions of      *)
(* lib/rag.ts, with the version's MAX_CONTEXT_LENGTH).                     *)
(***************************************************************************)
NO_CONTEXT == "No relevant context found in the documents."

\* (similarity * 100).toFixed(1) of a similarity s/120: s * 25 / 3 tenths,
\* rounded half up
toFixed1(s) ==
  LET tenths == (s * 50 + 3) \div 6
  IN ToString(tenths \div 10) \o "." \o ToString(tenths % 10)

Section(doc) ==
  "[Page " \o ToString(doc.metadata.page_number) \o ", Relevance: "
    \o toFixed1(doc.similarity) \o "%]\n" \o doc.content \o "\n\n"

\* byPage.get(page): the documents of the page in input order
PageDocs(documents, page) ==
  SelectIdx(documents, {i \in DOMAIN documents : documents[i].metadata.page_number = page}, 1)

\* the inner loop over the documents of one page: st is [context, totalLength,
\* blocks]; blocks lists the documents whose section went into context
RECURSIVE FormatPage(_, _, _, _)
FormatPage(pageDocs, j, st, maxLength) ==
  IF j > Len(pageDocs) THEN st
  ELSE LET section == Section(pageDocs[j]) IN
    IF st.totalLength + Len(section) > maxLength
      THEN st    \* break: leaves the loop over this page only
      ELSE FormatPage(pageDocs, j + 1,
             [context |-> st.context \o section,
              totalLength |-> st.totalLength + Len(section),
              blocks |-> Append(st.blocks, pageDocs[j])], maxLength)

\* the outer loop over sortedPages
RECURSIVE FormatPages(_, _, _, _, _)
FormatPages(documents, sortedPages, p, st, maxLength) ==
  IF p > Len(sortedPages) THEN st
  ELSE FormatPages(documents, sortedPages, p + 1,
         FormatPage(PageDocs(documents, sortedPages[p]), 1, st, maxLength), maxLength)

\* the loop over Array.from(byPage.keys()) without the sort: pages in the
\* order of their first candidate
FormatLoop_InsertionOrder(documents, maxLength) ==
  FormatPages(documents,
    Dedup([i \in DOMAIN documents |-> documents[i].metadata.page_number]), 1,
    [context |-> "", totalLength |-> 0, blocks |-> <<>>], maxLength)

FormatLoop(documents, maxLength) ==
  FormatPages(documents,
    SortAsc({documents[i].metadata.page_number : i \in DOMAIN documents}), 1,
    [context |-> "", totalLength |-> 0, blocks |-> <<>>], maxLength)

formatContext(documents, maxLength) ==
  IF Len(documents) = 0 THEN NO_CONTEXT
  ELSE trim(FormatLoop(documents, maxLength).context)

\* the documents whose blocks formatContext rendered, in the order rendered
RenderedBlocks(documents, maxLength) == FormatLoop(documents, maxLength).blocks

\* formatSources without the sort of the pages: the pages in the order of
\* their first candidate
formatSources_InsertionOrder(documents) ==
  LET all == [i \in DOMAIN documents |-> documents[i].metadata.document_name]
      names == Dedup(all)
      pageList(name) ==
        LET own == SelectIdx(documents, {j \in DOMAIN documents : all[j] = name}, 1)
            inOrder == Dedup([i \in DOMAIN own |-> own[i].metadata.page_number])
        IN join([i \in DOMAIN inOrder |-> ToString(inOrder[i])], ", ")
  IN [n \in DOMAIN names |-> names[n] \o " (pages: " \o pageList(names[n]) \o ")"]

formatSources(documents) ==
  LET all == [i \in DOMAIN documents |-> documents[i].metadata.document_name]
      names == Dedup(all)
      pages(name) == {documents[i].metadata.page_number :
                        i \in {j \in DOMAIN documents : all[j] = name}}
      pageList(name) ==
        LET sorted == SortAsc(pages(name))
        IN join([i \in DOMAIN sorted |-> ToString(sorted[i])], ", ")
  IN [n \in DOMAIN names |-> names[n] \o " (pages: " \o pageList(names[n]) \o ")"]

(***************************************************************************)
(* One request through POST /api/chat (mode "stream") or POST /api/query   *)
(* (mode "single"), with lib/rag.ts in its hybrid or multi-query version.  *)
(***************************************************************************)
\* the longest generation stream considered, in fragments
MaxFragments == 2
\* the number of embeddings a query can be given
MaxProfile == 3

Queries == {"What is NASA?", "Where is the Mars rover?", " is it? "}
\* body.query when it is a string the routes turn down
BlankQueries == {"", "  "}
\* typeof body.query: "undefined" when the field is missing, "number" for a
\* query such as 42
QueryTypes == {"string", "undefined", "number"}
TopKs == {0, 3, 10}
DocumentFilters == {"", "a.pdf"}

\* the similarity of every row to the k-th embedding: a different permutation
\* of the grid for every k
SimGrid == <<6, 60, 114, 12, 0, 120, 30, 90>>
Profile(k) ==
  [id \in 1..Len(Store) |-> SimGrid[((id * (2 * k - 1) + k) % Len(SimGrid)) + 1]]

CONFIG_ERROR ==
  "Missing Supabase environment variables. Please set NEXT_PUBLIC_SUPABASE_URL and SUPABASE_SERVICE_ROLE_KEY."
EMBED_ERROR == "embedding request failed"
SEARCH_ERROR == "Failed to search documents: connection refused"
\* failures of the generation call: a 429 of the model service, and a 503
\* whose message names the endpoint it was sent to
GenerationErrors ==
  {"429 quota exceeded",
   "Error fetching from models/gemini:streamGenerateContent: [503 Service Unavailable]"}
Fragments == {"", "tok"}
Answers == {"", "NASA is the space agency (Page 1)."}

VARIABLES
  req,              \* the request and its environment: variant, mode, query,
                    \* topK, documentFilter, configured
  supabaseInstance, \* lib/supabase.ts: 0 for null, else the number of the
                    \* createClient call that made the client
  pc,               \* where the orchestrator stands
  questionType,     \* hybrid version: detectQuestionType(query)
  keywords,         \* hybrid version: extractKeywords(query)
  queries,          \* multi-query version: expandQuery(query)
  embPc,            \* where the embedding search stands
  simsNow,          \* the similarities under the current query embedding
  embeddingResults,
  kwPc,             \* where searchDocumentsByKeywords stands
  kwIndex,          \* the keyword the next query is for
  kwAll,            \* its allResults map, in insertion order
  kwErrors,         \* the keyword queries that returned an error
  kwRejected,       \* the promise of the keyword search rejected
  keywordResults,
  mqIndex,          \* multi-query version: the query variation in work
  allResults,       \* multi-query version: allResults of retrieveContext
  filtered,         \* hybrid version: the local filtered of retrieveContext
  inflight,         \* the locals of the retrieveContext calls of requests that
                    \* run side by side, one record for each request
  relevantDocs,
  contextText,
  sources,
  events,           \* what streamRAGResponse has yielded
  fragments,        \* the fragments the generation stream has delivered
  raised,           \* the failure as the collaborator raised it
  error,            \* the failure the orchestrator threw to its caller
  result,           \* what generateRAGResponse returned
  response,         \* the response of the route: JSON, or the one that carries
                    \* the event stream
  sse,              \* the events POST /api/chat enqueued
  closed,           \* controller.close() calls that closed the stream
  cancelled,        \* the client has cancelled the response stream
  lateReads,        \* fragments of the generation stream read after that
  lateWrites,       \* controller.enqueue() and close() calls made after
                    \* that: each of them throws
  fnIn,             \* the argument of the function applied on its own
  fnOut             \* its result

vars == <<req, supabaseInstance, pc, questionType, keywords, queries, embPc, simsNow, embeddingResults, kwPc, kwIndex,
          kwAll, kwErrors, kwRejected, keywordResults, mqIndex, allResults, filtered,
          inflight, relevantDocs, contextText, sources, events, fragments, raised, error, result,
          response, sse, closed, cancelled, lateReads, lateWrites, fnIn, fnOut>>

retrievalVars == <<questionType, keywords, queries, embPc, simsNow, embeddingResults, kwPc, kwIndex, kwAll, kwErrors,
                   kwRejected, keywordResults, mqIndex, allResults, filtered, inflight>>
answerVars == <<relevantDocs, contextText, sources>>
outputVars == <<events, fragments, raised, error, result, response, sse, closed,
                cancelled, lateReads, lateWrites>>
clientVars == <<cancelled, lateReads, lateWrites>>
fnVars == <<fnIn, fnOut>>

\* null
NoInstance == 0

\* getSupabase that calls createClient on every call
getSupabase_AlwaysCreate(instance, configured) ==
  IF ~configured THEN NoInstance ELSE instance + 1

\* getSupabase: the client after the call, NoInstance when the call throws.
\* The client is created when there is none and both variables are set.
getSupabase(instance, configured) ==
  IF instance # NoInstance THEN instance
  ELSE IF ~configured THEN NoInstance
  ELSE instance + 1

NoResult == [answer |-> "", sources |-> <<>>, context |-> <<>>, returned |-> FALSE]
NoResponse == [status |-> 0]
NoFn == [op |-> "none"]

RequestIdle ==
  /\ supabaseInstance = NoInstance
  /\ pc = "start" /\ questionType = "" /\ keywords = <<>> /\ queries = <<>>
  /\ embPc = "idle" /\ simsNow = Profile(1) /\ embeddingResults = <<>>
  /\ kwPc = "idle" /\ kwIndex = 1 /\ kwAll = <<>> /\ kwErrors = 0 /\ kwRejected = FALSE
  /\ keywordResults = <<>> /\ mqIndex = 1 /\ allResults = <<>> /\ filtered = <<>>
  /\ relevantDocs = <<>> /\ contextText = "" /\ sources = <<>>
  /\ events = <<>> /\ fragments = 0 /\ raised = "" /\ error = ""
  /\ result = NoResult /\ response = NoResponse /\ sse = <<>> /\ closed = 0
  /\ cancelled = FALSE /\ lateReads = 0 /\ lateWrites = 0

Init ==
  /\ req \in {r \in [variant : {"hybrid", "multi"}, mode : {"stream", "single"},
                       queryType : QueryTypes, query : Queries \cup BlankQueries,
                       topK : TopKs, documentFilter : DocumentFilters,
                       configured : BOOLEAN] :
                 r.queryType # "string" => r.query = ""}
  /\ RequestIdle /\ inflight = <<>>
  /\ fnIn = NoFn /\ fnOut = NoFn

\* the catch block with the done event enqueued after the error event
RouteCatch_AlsoDone(msg) ==
  IF req.mode = "stream" /\ cancelled
    THEN /\ lateWrites' = lateWrites + 2
         /\ UNCHANGED <<sse, closed, response>>
  ELSE IF req.mode = "stream"
    THEN /\ sse' = sse \o <<[type |-> "error", error |-> msg, isRateLimit |-> FALSE],
                            [type |-> "done", chunks |-> 0]>>
         /\ closed' = closed + 1
         /\ UNCHANGED <<response, lateWrites>>
    ELSE /\ response' = [status |-> 500, error |-> "Failed to process query",
                         details |-> msg]
         /\ UNCHANGED <<sse, closed, lateWrites>>

\* the route's catch block: POST /api/chat enqueues one error event and
\* closes, POST /api/query answers 500.  On a cancelled stream the enqueue
\* of the catch block throws, and so does the close of the finally block.
RouteCatch(msg) ==
  IF req.mode = "stream" /\ cancelled
    THEN /\ lateWrites' = lateWrites + 2
         /\ UNCHANGED <<sse, closed, response>>
  ELSE IF req.mode = "stream"
    THEN LET isRateLimit == includes(msg, "429") \/ includes(msg, "quota")
                              \/ includes(msg, "rate")
             userMessage ==
               IF isRateLimit
                 THEN "The AI service is temporarily busy. Please wait a moment and try again."
                 ELSE msg
         IN /\ sse' = Append(sse, [type |-> "error", error |-> userMessage,
                                   isRateLimit |-> isRateLimit])
            /\ closed' = closed + 1
            /\ UNCHANGED <<response, lateWrites>>
    ELSE /\ response' = [status |-> 500, error |-> "Failed to process query",
                         details |-> msg]
         /\ UNCHANGED <<sse, closed, lateWrites>>

\* a collaborator fails with msg: nothing between it and the route catches
Throw(msg) ==
  /\ raised' = msg
  /\ error' = msg
  /\ pc' = "thrown"
  /\ RouteCatch(msg)
  /\ UNCHANGED <<events, fragments, result, cancelled, lateReads>>

\* getSupabase() of a store call returns
StoreClientOk == getSupabase(supabaseInstance, req.configured) # NoInstance

\* the loop over every valid keyword, without slice(0, 5)
QueriedKeywords_NoLimit(kws) == validKeywordsOf(kws)

\* the keywords the keyword search queries the store for
QueriedKeywords(kws) == slice0(validKeywordsOf(kws), MAX_KEYWORD_QUERIES)

\* the test without trim(): a query of blanks passes
ValidQuery_NoTrim(r) == r.queryType = "string" /\ r.query # ""

\* the test both routes make of body.query: a string that is not empty
\* after trim()
ValidQuery(r) == r.queryType = "string" /\ trim(r.query) # ""

\* query.trim(), the query the routes hand to lib/rag.ts
Query == trim(req.query)

\* the 400 of the routes
InvalidResponse ==
  IF req.mode = "stream"
    THEN [status |-> 400, error |-> "Valid query is required"]
  ELSE IF req.queryType # "string" \/ req.query = ""
    THEN [status |-> 400, error |-> "Query is required and must be a string"]
  ELSE [status |-> 400, error |-> "Query cannot be empty"]

\* the route turns the request down
RejectRequest ==
  /\ pc = "start" /\ ~ValidQuery(req)
  /\ pc' = "rejected"
  /\ response' = InvalidResponse
  /\ UNCHANGED <<req, supabaseInstance, retrievalVars, answerVars, events, fragments,
                 raised, error, result, sse, closed, clientVars, fnVars>>

(* The route hands the request on: POST /api/chat returns the response that *)
(* carries the stream, whose start() runs                                   *)
(* retrieveContext up to its first await.  Hybrid: classification, search   *)
(* query and keywords, then both searches are started; the keyword search   *)
(* runs up to its first store query, and its promise is already rejected    *)
(* (and caught) when getSupabase throws.                                    *)
StartRequest ==
  /\ pc = "start" /\ ValidQuery(req)
  /\ IF req.mode = "stream"
       THEN response' = [status |-> 200, stream |-> TRUE]
       ELSE UNCHANGED response
  /\ pc' = "retrieving"
  /\ embPc' = "embedding"
  /\ IF req.variant = "hybrid"
       THEN /\ questionType' = detectQuestionType(Query)
            /\ keywords' = extractKeywords(Query)
            /\ UNCHANGED queries
       ELSE /\ queries' = expandQuery(Query)
            /\ UNCHANGED <<questionType, keywords>>
  /\ IF req.variant = "hybrid" /\ Len(keywords') > 0
       THEN IF ~StoreClientOk
              THEN kwPc' = "done" /\ kwRejected' = TRUE /\ UNCHANGED supabaseInstance
            ELSE IF Len(QueriedKeywords(keywords')) = 0
              THEN /\ kwPc' = "done" /\ UNCHANGED kwRejected
                   /\ supabaseInstance' = getSupabase(supabaseInstance, req.configured)
            ELSE /\ kwPc' = "querying" /\ UNCHANGED kwRejected
                 /\ supabaseInstance' = getSupabase(supabaseInstance, req.configured)
       ELSE kwPc' = "done" /\ UNCHANGED <<kwRejected, supabaseInstance>>
  /\ UNCHANGED <<req, inflight, simsNow, embeddingResults, kwIndex, kwAll, kwErrors, keywordResults,
                 mqIndex, allResults, filtered>>
  /\ UNCHANGED <<answerVars, events, fragments, raised, error, result, sse, closed,
                 clientVars, fnVars>>

\* generateQueryEmbedding resolves; searchDocuments calls getSupabase and
\* sends the match_documents call
EmbedOk ==
  /\ pc = "retrieving" /\ embPc = "embedding"
  /\ \E k \in 1..MaxProfile : simsNow' = Profile(k)
  /\ IF StoreClientOk
       THEN /\ embPc' = "searching"
            /\ supabaseInstance' = getSupabase(supabaseInstance, req.configured)
            /\ UNCHANGED <<pc, outputVars>>
       ELSE /\ Throw(CONFIG_ERROR)
            /\ UNCHANGED <<embPc, supabaseInstance>>
  /\ UNCHANGED <<req, inflight, questionType, keywords, queries, embeddingResults, kwPc, kwIndex,
                 kwAll, kwErrors, kwRejected, keywordResults, mqIndex, allResults, filtered>>
  /\ UNCHANGED <<answerVars, fnVars>>

\* the embedding failure caught and turned into an empty result list
EmbedFail_Swallowed ==
  /\ pc = "retrieving" /\ embPc = "embedding"
  /\ raised' = EMBED_ERROR
  /\ embPc' = "done"
  /\ embeddingResults' = <<>>
  /\ UNCHANGED <<req, inflight, supabaseInstance, pc, questionType, keywords, queries, simsNow,
                 kwPc, kwIndex, kwAll, kwErrors, kwRejected, keywordResults, mqIndex,
                 allResults, filtered>>
  /\ UNCHANGED <<answerVars, events, fragments, error, result, response, sse, closed,
                 clientVars, fnVars>>

EmbedFail ==
  /\ pc = "retrieving" /\ embPc = "embedding"
  /\ Throw(EMBED_ERROR)
  /\ UNCHANGED <<req, supabaseInstance, retrievalVars, answerVars, fnVars>>

SearchFail ==
  /\ pc = "retrieving" /\ embPc = "searching"
  /\ Throw(SEARCH_ERROR)
  /\ UNCHANGED <<req, supabaseInstance, retrievalVars, answerVars, fnVars>>

\* what follows retrieveContext in generateRAGResponse and streamRAGResponse,
\* up to the await of the generation call
StartGeneration(docs) ==
  /\ relevantDocs' = docs
  /\ contextText' = formatContext(docs, IF req.variant = "hybrid"
                                          THEN MAX_CONTEXT_LENGTH
                                          ELSE MQ_MAX_CONTEXT_LENGTH)
  /\ sources' = formatSources(docs)
  /\ pc' = "generating"

\* one keyword query returns: an error is skipped, rows are counted; after the
\* last keyword the results are scored, sorted and cut
KeywordQuery ==
  /\ pc = "retrieving" /\ kwPc = "querying"
  /\ \E asked \in {QueriedKeywords(keywords)} :
       LET total == Len(validKeywordsOf(keywords))
           finish(all) ==
             /\ kwAll' = all
             /\ kwIndex' = kwIndex + 1
             /\ IF kwIndex = Len(asked)
                  THEN /\ keywordResults' = KeywordResults(all, total, req.topK)
                       /\ kwPc' = "done"
                  ELSE UNCHANGED <<keywordResults, kwPc>>
       IN \/ /\ kwErrors' = kwErrors + 1
             /\ finish(kwAll)
          \/ /\ UNCHANGED kwErrors
             /\ \E rows \in LimitChoices(IlikeRows(asked[kwIndex], req.documentFilter),
                                         req.topK) :
                  \E all \in {CountMatches(kwAll, SelectIdx(Store, rows, 1), 1)} :
                    finish(all)
  /\ UNCHANGED <<req, inflight, supabaseInstance, pc, questionType, keywords, queries, embPc,
                 simsNow, embeddingResults, kwRejected, mqIndex, allResults, filtered>>
  /\ UNCHANGED <<answerVars, outputVars, fnVars>>

\* the keyword search awaited without .catch: its rejection rejects
\* Promise.all
KeywordReject_NoCatch ==
  /\ pc = "retrieving" /\ kwPc = "querying"
  /\ kwRejected' = TRUE
  /\ Throw("keyword search failed")
  /\ UNCHANGED <<req, inflight, supabaseInstance, questionType, keywords, queries, embPc,
                 simsNow, embeddingResults, kwPc, kwIndex, kwAll, kwErrors,
                 keywordResults, mqIndex, allResults, filtered>>
  /\ UNCHANGED <<answerVars, fnVars>>

\* a keyword query throws instead of returning: .catch(() => [])
KeywordReject ==
  /\ pc = "retrieving" /\ kwPc = "querying"
  /\ kwRejected' = TRUE
  /\ keywordResults' = <<>>
  /\ kwPc' = "done"
  /\ UNCHANGED <<req, inflight, supabaseInstance, pc, questionType, keywords, queries, embPc,
                 simsNow, embeddingResults, kwIndex, kwAll, kwErrors, mqIndex, allResults,
                 filtered>>
  /\ UNCHANGED <<answerVars, outputVars, fnVars>>

\* match_documents returns.  Hybrid: the embedding search is settled.
\* Multi-query: the results are added, and the next variation is embedded or
\* the list is sorted, cut and handed on.
SearchOk ==
  /\ pc = "retrieving" /\ embPc = "searching"
  /\ \E results \in {MatchDocuments(simsNow, req.topK, req.documentFilter)} :
     IF req.variant = "hybrid"
       THEN /\ embeddingResults' = results
            /\ embPc' = "done"
            /\ UNCHANGED <<pc, mqIndex, allResults, answerVars>>
       ELSE \E all \in {AddUnique(allResults, results, 1)} :
            /\ embeddingResults' = results
            /\ allResults' = all
            /\ IF mqIndex < Len(queries)
                 THEN /\ mqIndex' = mqIndex + 1
                      /\ embPc' = "embedding"
                      /\ UNCHANGED <<pc, answerVars>>
                 ELSE /\ embPc' = "done"
                      /\ UNCHANGED mqIndex
                      /\ \E docs \in {MultiQueryFinish(all, req.topK)} :
                           StartGeneration(docs)
  /\ UNCHANGED <<req, inflight, supabaseInstance, questionType, keywords, queries, simsNow, kwPc,
                 kwIndex, kwAll, kwErrors, kwRejected, keywordResults, filtered>>
  /\ UNCHANGED <<outputVars, fnVars>>

\* the merge started when the embedding search has settled, the keyword
\* search awaited or not
MergeAndRerank_NoWait ==
  /\ pc = "retrieving" /\ req.variant = "hybrid"
  /\ embPc = "done"
  /\ \E kept \in {FilterByThreshold(MergeResults(embeddingResults, keywordResults),
                                    SIMILARITY_THRESHOLD)} :
       /\ filtered' = kept
       /\ \E docs \in {rerankDocuments(kept, Query, questionType, RERANK_TOP_K)} :
            StartGeneration(docs)
  /\ UNCHANGED <<req, inflight, supabaseInstance, questionType, keywords, queries, embPc, simsNow,
                 embeddingResults, kwPc, kwIndex, kwAll, kwErrors, kwRejected,
                 keywordResults, mqIndex, allResults>>
  /\ UNCHANGED <<outputVars, fnVars>>

\* Promise.all resolves: merge, threshold, rerank (hybrid version)
MergeAndRerank ==
  /\ pc = "retrieving" /\ req.variant = "hybrid"
  /\ embPc = "done" /\ kwPc = "done"
  /\ \E kept \in {FilterByThreshold(MergeResults(embeddingResults, keywordResults),
                                    SIMILARITY_THRESHOLD)} :
       /\ filtered' = kept
       /\ \E docs \in {rerankDocuments(kept, Query, questionType, RERANK_TOP_K)} :
            StartGeneration(docs)
  /\ UNCHANGED <<req, inflight, supabaseInstance, questionType, keywords, queries, embPc, simsNow,
                 embeddingResults, kwPc, kwIndex, kwAll, kwErrors, kwRejected,
                 keywordResults, mqIndex, allResults>>
  /\ UNCHANGED <<outputVars, fnVars>>

\* chatModel.invoke resolves: generateRAGResponse returns, POST /api/query
\* answers
InvokeOk ==
  /\ pc = "generating" /\ req.mode = "single"
  /\ \E content \in Answers :
       /\ result' = [answer |-> content, sources |-> sources, context |-> relevantDocs,
                     returned |-> TRUE]
       /\ response' = [status |-> 200, success |-> TRUE, answer |-> content,
                       sources |-> sources, contextCount |-> Len(relevantDocs)]
  /\ pc' = "returned"
  /\ UNCHANGED <<req, supabaseInstance, retrievalVars, answerVars, events, fragments,
                 raised, error, sse, closed, clientVars, fnVars>>

\* chatModel.invoke or chatModel.stream rejects, or the stream fails while it
\* is read
GenerationFail ==
  /\ pc \in {"generating", "streaming"}
  /\ \E msg \in GenerationErrors : Throw(msg)
  /\ UNCHANGED <<req, supabaseInstance, retrievalVars, answerVars, fnVars>>

\* chatModel.stream resolves to a stream
StreamOpen ==
  /\ pc = "generating" /\ req.mode = "stream"
  /\ pc' = "streaming"
  /\ UNCHANGED <<req, supabaseInstance, retrievalVars, answerVars, outputVars, fnVars>>

\* POST /api/chat on one item of the generator
RouteItem(item) ==
  IF item.type = "chunk" /\ item.data # ""
    THEN Append(sse, [type |-> "chunk", content |-> item.data])
  ELSE IF item.type = "sources"
    THEN Append(sse, [type |-> "sources", sources |-> item.data])
  ELSE sse

\* the chunk events POST /api/chat has counted
ChunkCount(q) == Cardinality({i \in DOMAIN q : q[i].type = "chunk"})

\* the enqueue of an item on a cancelled stream throws; so do the enqueue of
\* the catch block and the close of the finally block; leaving the loop
\* returns the generator, which gives up the generation stream
WriteCancelled ==
  /\ lateWrites' = lateWrites + 3
  /\ pc' = "abandoned"
  /\ UNCHANGED <<sse, closed>>

\* the stream delivers a fragment: one with content is yielded as a chunk
\* event, which the route enqueues
StreamFragment ==
  /\ pc = "streaming" /\ fragments < MaxFragments
  /\ fragments' = fragments + 1
  /\ lateReads' = IF cancelled THEN lateReads + 1 ELSE lateReads
  /\ \E content \in Fragments :
       IF content # ""
         THEN LET item == [type |-> "chunk", data |-> content] IN
              /\ events' = Append(events, item)
              /\ IF cancelled
                   THEN WriteCancelled
                   ELSE /\ sse' = RouteItem(item)
                        /\ UNCHANGED <<pc, closed, lateWrites>>
         ELSE UNCHANGED <<events, sse, pc, closed, lateWrites>>
  /\ UNCHANGED <<req, supabaseInstance, retrievalVars, answerVars, raised, error,
                 result, response, cancelled, fnVars>>

\* the sources event yielded ahead of the chunks it belongs to
StreamEnd_SourcesFirst ==
  /\ pc = "streaming"
  /\ LET item == [type |-> "sources", data |-> sources] IN
     /\ events' = <<item>> \o events
     /\ IF cancelled
          THEN WriteCancelled
          ELSE /\ sse' = Append(RouteItem(item),
                                [type |-> "done", chunks |-> ChunkCount(sse)])
               /\ closed' = closed + 1
               /\ pc' = "returned"
               /\ UNCHANGED lateWrites
  /\ UNCHANGED <<req, supabaseInstance, retrievalVars, answerVars, fragments, raised,
                 error, result, response, cancelled, lateReads, fnVars>>

\* the stream ends: the sources event is yielded, the generator returns, the
\* route enqueues sources and done and closes
StreamEnd ==
  /\ pc = "streaming"
  /\ LET item == [type |-> "sources", data |-> sources] IN
     /\ events' = Append(events, item)
     /\ IF cancelled
          THEN WriteCancelled
          ELSE /\ sse' = Append(RouteItem(item),
                                [type |-> "done", chunks |-> ChunkCount(sse)])
               /\ closed' = closed + 1
               /\ pc' = "returned"
               /\ UNCHANGED lateWrites
  /\ UNCHANGED <<req, supabaseInstance, retrievalVars, answerVars, fragments, raised,
                 error, result, response, cancelled, lateReads, fnVars>>

\* the client disconnects: the response stream is cancelled.  The stream has
\* no cancel() and the calls carry no signal, so nothing else changes.
ClientCancel ==
  /\ req.mode = "stream" /\ pc \in {"retrieving", "generating", "streaming"}
  /\ ~cancelled
  /\ cancelled' = TRUE
  /\ UNCHANGED <<req, supabaseInstance, pc, retrievalVars, answerVars, events,
                 fragments, raised, error, result, response, sse, closed, lateReads,
                 lateWrites, fnVars>>

Next ==
  \/ RejectRequest
  \/ StartRequest
  \/ EmbedOk
  \/ EmbedFail
  \/ SearchOk
  \/ SearchFail
  \/ KeywordQuery
  \/ KeywordReject
  \/ MergeAndRerank
  \/ InvokeOk
  \/ GenerationFail
  \/ StreamOpen
  \/ StreamFragment
  \/ StreamEnd
  \/ ClientCancel

Spec == Init /\ [][Next]_vars

(***************************************************************************)
(* The merge steps of retrieveContext on arbitrary result lists.           *)
(***************************************************************************)
\* the longest result list, and the number of distinct chunk ids
MaxListLen == 2
MaxMergeId == 2
SimChoices == {6, 60, 114}

SeqsUpTo(S, n) == UNION {[1..m -> S] : m \in 0..n}

MergeDocs == {Matched(Store[id], sim) : id \in 1..MaxMergeId, sim \in SimChoices}

DefaultReq ==
  [variant |-> "hybrid", mode |-> "single", queryType |-> "string", query |-> "is it?",
   topK |-> 0,
   documentFilter |-> "", configured |-> TRUE]

InitMerge ==
  /\ req = DefaultReq
  /\ RequestIdle /\ inflight = <<>>
  /\ fnIn \in [op : {"merge"}, semantic : SeqsUpTo(MergeDocs, MaxListLen),
               keyword : SeqsUpTo(MergeDocs, MaxListLen)]
  /\ fnOut = NoFn

\* the hybrid merge of embeddingResults = semantic and keywordResults = keyword
MergeHybrid ==
  /\ fnIn.op = "merge" /\ fnOut = NoFn
  /\ fnOut' = [op |-> "hybrid", merged |-> MergeResults(fnIn.semantic, fnIn.keyword)]
  /\ UNCHANGED <<req, supabaseInstance, pc, retrievalVars, answerVars, outputVars, fnIn>>

\* the multi-query loop on the results of two query variations
MergeMulti ==
  /\ fnIn.op = "merge" /\ fnOut = NoFn
  /\ fnOut' = [op |-> "multi",
               merged |-> AddUnique(AddUnique(<<>>, fnIn.semantic, 1), fnIn.keyword, 1)]
  /\ UNCHANGED <<req, supabaseInstance, pc, retrievalVars, answerVars, outputVars, fnIn>>

NextMerge == MergeHybrid \/ MergeMulti

SpecMerge == InitMerge /\ [][NextMerge]_vars

(***************************************************************************)
(* formatContext on arbitrary candidate lists.                             *)
(***************************************************************************)
\* the longest candidate list
MaxFormatDocs == 3
FormatPageNumbers == {1, 2, 3}
FormatLengths == {3000, 6000}

\* a content of n characters
RECURSIVE Pad(_)
Pad(n) ==
  IF n = 0 THEN ""
  ELSE LET half == Pad(n \div 2)
       IN half \o half \o (IF n % 2 = 1 THEN "x" ELSE "")

\* candidate i of a list: its id and chunk index tell its place in the list
FormatDoc(i, page, length) ==
  [id |-> i, content |-> Pad(length), metadata |-> Meta("a.pdf", page, i - 1),
   similarity |-> 114]

FormatInputs ==
  {[i \in DOMAIN shape |-> FormatDoc(i, shape[i][1], shape[i][2])] :
     shape \in SeqsUpTo(FormatPageNumbers \X FormatLengths, MaxFormatDocs)}

InitFormat ==
  /\ req = DefaultReq
  /\ RequestIdle /\ inflight = <<>>
  /\ fnIn \in [op : {"format"}, documents : FormatInputs]
  /\ fnOut = NoFn

FormatResult(documents, maxLength) ==
  [op |-> "formatContext", maxLength |-> maxLength,
   context |-> formatContext(documents, maxLength),
   blocks |-> RenderedBlocks(documents, maxLength)]

\* formatContext of the hybrid lib/rag.ts
FormatHybrid ==
  /\ fnIn.op = "format" /\ fnOut = NoFn
  /\ \E out \in {FormatResult(fnIn.documents, MAX_CONTEXT_LENGTH)} : fnOut' = out
  /\ UNCHANGED <<req, supabaseInstance, pc, retrievalVars, answerVars, outputVars, fnIn>>

\* formatContext of the multi-query lib/rag.ts
FormatMulti ==
  /\ fnIn.op = "format" /\ fnOut = NoFn
  /\ \E out \in {FormatResult(fnIn.documents, MQ_MAX_CONTEXT_LENGTH)} : fnOut' = out
  /\ UNCHANGED <<req, supabaseInstance, pc, retrievalVars, answerVars, outputVars, fnIn>>

NextFormat == FormatHybrid \/ FormatMulti

SpecFormat == InitFormat /\ [][NextFormat]_vars

(***************************************************************************)
(* formatSources on arbitrary candidate lists.                             *)
(***************************************************************************)
\* the longest candidate list
MaxSourceDocs == 3
SourceNames == {"a.pdf", "b.pdf"}
SourcePageNumbers == {1, 2, 10}

SourceDoc(i, name, page) ==
  [id |-> i, content |-> "x", metadata |-> Meta(name, page, i - 1), similarity |-> 60]

SourceInputs ==
  {[i \in DOMAIN shape |-> SourceDoc(i, shape[i][1], shape[i][2])] :
     shape \in SeqsUpTo(SourceNames \X SourcePageNumbers, MaxSourceDocs)}

InitSources ==
  /\ req = DefaultReq
  /\ RequestIdle /\ inflight = <<>>
  /\ fnIn \in [op : {"sources"}, documents : SourceInputs]
  /\ fnOut = NoFn

FormatSourcesApply ==
  /\ fnIn.op = "sources" /\ fnOut = NoFn
  /\ fnOut' = [op |-> "formatSources", sources |-> formatSources(fnIn.documents)]
  /\ UNCHANGED <<req, supabaseInstance, pc, retrievalVars, answerVars, outputVars, fnIn>>

NextSources == FormatSourcesApply

SpecSources == InitSources /\ [][NextSources]_vars

(***************************************************************************)
(* rerankDocuments on arbitrary candidate lists.                           *)
(***************************************************************************)
\* the longest candidate list
MaxRerankDocs == 3
RerankRows == {1, 2}
RerankTopNs == {2, 6}
RerankSims == {60, 114}

\* candidate i of a list: the content of a stored row under the id i
RerankDoc(i, row, sim) == [Matched(Store[row], sim) EXCEPT !.id = i]

RerankInputs ==
  {[i \in DOMAIN shape |-> RerankDoc(i, shape[i][1], shape[i][2])] :
     shape \in SeqsUpTo(RerankRows \X RerankSims, MaxRerankDocs)}

InitRerank ==
  /\ req = DefaultReq
  /\ RequestIdle /\ inflight = <<>>
  /\ fnIn \in [op : {"rerank"}, documents : RerankInputs, query : Queries,
               topK : RerankTopNs]
  /\ fnOut = NoFn

\* what one call of rerankDocuments returns: the documents and the
\* rerankScore each of them carries
RerankResult(documents, query, topK) ==
  LET questionTypeOf == detectQuestionType(query)
      ranked == rerankDocuments(documents, query, questionTypeOf, topK)
      terms == extractSearchTerms(query, questionTypeOf)
      queryKeywords == extractKeywords(query)
  IN [ranked |-> ranked,
      scores |-> [i \in DOMAIN ranked |->
                    RerankScore(ranked[i], terms, queryKeywords, questionTypeOf)]]

\* the first call; documents.map copies, so the argument is left as it was
RerankOnce ==
  /\ fnIn.op = "rerank" /\ fnOut = NoFn
  /\ \E out \in {RerankResult(fnIn.documents, fnIn.query, fnIn.topK)} :
       fnOut' = [op |-> "rerank", first |-> out]
  /\ UNCHANGED <<req, supabaseInstance, pc, retrievalVars, answerVars, outputVars, fnIn>>

\* a second call with the same arguments
RerankAgain ==
  /\ fnIn.op = "rerank" /\ fnOut.op = "rerank"
  /\ \E out \in {RerankResult(fnIn.documents, fnIn.query, fnIn.topK)} :
       fnOut' = [op |-> "rerankTwice", first |-> fnOut.first, second |-> out]
  /\ UNCHANGED <<req, supabaseInstance, pc, retrievalVars, answerVars, outputVars, fnIn>>

NextRerank == RerankOnce \/ RerankAgain

SpecRerank == InitRerank /\ [][NextRerank]_vars

(***************************************************************************)
(* The query analysis of the hybrid lib/rag.ts on a family of queries.     *)
(***************************************************************************)
QueryLeads ==
  {"What is", "Where is", "How does", "List the types of", "Compare", "Why is",
   "What is the difference between", "Explain why", "Tell me about"}
QuerySubjects == {"NASA", "the Mars rover", "\"dark matter\"", "it"}
QueryTails == {"?", " work?"}

QueryInputs ==
  {lead \o " " \o subject \o tail :
     lead \in QueryLeads, subject \in QuerySubjects, tail \in QueryTails}

InitQuery ==
  /\ req = DefaultReq
  /\ RequestIdle /\ inflight = <<>>
  /\ fnIn \in [op : {"query"}, query : QueryInputs]
  /\ fnOut = NoFn

\* detectQuestionType(query)
ClassifyQuery ==
  /\ fnIn.op = "query" /\ fnOut = NoFn
  /\ fnOut' = [op |-> "classified", questionType |-> detectQuestionType(fnIn.query)]
  /\ UNCHANGED <<req, supabaseInstance, pc, retrievalVars, answerVars, outputVars, fnIn>>

\* extractSearchTerms(query, questionType)
ExtractTerms ==
  /\ fnIn.op = "query" /\ fnOut.op = "classified"
  /\ \E terms \in {extractSearchTerms(fnIn.query, fnOut.questionType)} :
       fnOut' = [op |-> "terms", questionType |-> fnOut.questionType, terms |-> terms]
  /\ UNCHANGED <<req, supabaseInstance, pc, retrievalVars, answerVars, outputVars, fnIn>>

\* buildSearchQuery(query, questionType)
BuildQuery ==
  /\ fnIn.op = "query" /\ fnOut.op = "terms"
  /\ \E built \in {buildSearchQuery(fnIn.query, fnOut.questionType)} :
       fnOut' = [op |-> "built", questionType |-> fnOut.questionType,
                 terms |-> fnOut.terms, searchQuery |-> built]
  /\ UNCHANGED <<req, supabaseInstance, pc, retrievalVars, answerVars, outputVars, fnIn>>

NextQuery == ClassifyQuery \/ ExtractTerms \/ BuildQuery

SpecQuery == InitQuery /\ [][NextQuery]_vars

(***************************************************************************)
(* Two hybrid retrieveContext calls side by side in one process: each has  *)
(* its locals, both use the client of getSupabase and the store.  The      *)
(* embedding service and the store answer a call by its arguments alone.   *)
(***************************************************************************)
\* the number of requests in flight
MaxInflight == 2
TwoQueries == {"What is NASA?", "Where is the Mars rover?"}
TwoTopKs == {3}

\* the similarities under the embedding of a search query
EmbeddingOf(query) == IF query = "What is NASA?" THEN Profile(3) ELSE Profile(1)

\* the rows a keyword query with LIMIT n returns
FirstRows(rows, n) == {r \in rows : Cardinality({q \in rows : q < r}) < n}

NewCall(query, topK) ==
  [query |-> query, topK |-> topK, documentFilter |-> "", pc |-> "start",
   questionType |-> "", keywords |-> <<>>, embPc |-> "idle",
   embeddingResults |-> <<>>, kwPc |-> "idle", kwIndex |-> 1, kwAll |-> <<>>,
   keywordResults |-> <<>>, relevantDocs |-> <<>>, contextText |-> "",
   sources |-> <<>>, error |-> ""]

soloVars ==
  <<pc, questionType, keywords, queries, embPc, simsNow, embeddingResults, kwPc,
    kwIndex, kwAll, kwErrors, kwRejected, keywordResults, mqIndex, allResults, filtered>>

InitTwo ==
  /\ req \in {[DefaultReq EXCEPT !.configured = c] : c \in BOOLEAN}
  /\ RequestIdle
  /\ inflight \in [1..MaxInflight -> {NewCall(query, topK) : query \in TwoQueries, topK \in TwoTopKs}]
  /\ fnIn = NoFn /\ fnOut = NoFn

\* a map hoisted to module scope: every call counts into the map of the first
KwAllOf_Shared(i) == inflight[1].kwAll

\* allResults of searchDocumentsByKeywords: a local of the call
KwAllOf(i) == inflight[i].kwAll

\* retrieveContext of request i up to its first await
TwoStart(i) ==
  LET p == inflight[i] IN
  /\ p.pc = "start"
  /\ \E kws \in {extractKeywords(p.query)} :
       LET started == [p EXCEPT !.pc = "retrieving", !.embPc = "embedding",
                                !.questionType = detectQuestionType(p.query),
                                !.keywords = kws]
       IN IF Len(kws) = 0
            THEN /\ inflight' = [inflight EXCEPT ![i] = [started EXCEPT !.kwPc = "done"]]
                 /\ UNCHANGED supabaseInstance
          ELSE IF ~StoreClientOk
            THEN /\ inflight' = [inflight EXCEPT ![i] = [started EXCEPT !.kwPc = "done"]]
                 /\ UNCHANGED supabaseInstance
          ELSE /\ inflight' = [inflight EXCEPT ![i] =
                                 [started EXCEPT !.kwPc =
                                    IF Len(QueriedKeywords(kws)) = 0 THEN "done"
                                    ELSE "querying"]]
               /\ supabaseInstance' = getSupabase(supabaseInstance, req.configured)
  /\ UNCHANGED <<req, soloVars, answerVars, outputVars, fnVars>>

\* generateQueryEmbedding of request i resolves; searchDocuments calls
\* getSupabase
TwoEmbed(i) ==
  LET p == inflight[i] IN
  /\ p.pc = "retrieving" /\ p.embPc = "embedding"
  /\ IF StoreClientOk
       THEN /\ inflight' = [inflight EXCEPT ![i].embPc = "searching"]
            /\ supabaseInstance' = getSupabase(supabaseInstance, req.configured)
       ELSE /\ inflight' = [inflight EXCEPT ![i].pc = "thrown", ![i].error = CONFIG_ERROR]
            /\ UNCHANGED supabaseInstance
  /\ UNCHANGED <<req, soloVars, answerVars, outputVars, fnVars>>

\* match_documents of request i returns
TwoSearch(i) ==
  LET p == inflight[i] IN
  /\ p.pc = "retrieving" /\ p.embPc = "searching"
  /\ \E results \in {MatchDocuments(EmbeddingOf(buildSearchQuery(p.query, p.questionType)),
                                    p.topK, p.documentFilter)} :
       inflight' = [inflight EXCEPT ![i].embPc = "done", ![i].embeddingResults = results]
  /\ UNCHANGED <<req, supabaseInstance, soloVars, answerVars, outputVars, fnVars>>

\* a keyword query of request i returns
TwoKeyword(i) ==
  LET p == inflight[i] IN
  /\ p.pc = "retrieving" /\ p.kwPc = "querying"
  /\ \E asked \in {QueriedKeywords(p.keywords)} :
     \E all \in {CountMatches(KwAllOf(i),
                   SelectIdx(Store, FirstRows(IlikeRows(asked[p.kwIndex], p.documentFilter),
                                              p.topK), 1), 1)} :
       inflight' =
         [inflight EXCEPT ![i] =
            IF p.kwIndex = Len(asked)
              THEN [p EXCEPT !.kwAll = all, !.kwIndex = @ + 1, !.kwPc = "done",
                             !.keywordResults =
                               KeywordResults(all, Len(validKeywordsOf(p.keywords)), p.topK)]
              ELSE [p EXCEPT !.kwAll = all, !.kwIndex = @ + 1]]
  /\ UNCHANGED <<req, supabaseInstance, soloVars, answerVars, outputVars, fnVars>>

\* Promise.all of request i resolves: merge, threshold, rerank; then the
\* context and the sources
TwoMerge(i) ==
  LET p == inflight[i] IN
  /\ p.pc = "retrieving" /\ p.embPc = "done" /\ p.kwPc = "done"
  /\ \E docs \in {rerankDocuments(
                    FilterByThreshold(MergeResults(p.embeddingResults, p.keywordResults),
                                      SIMILARITY_THRESHOLD),
                    p.query, p.questionType, RERANK_TOP_K)} :
       inflight' = [inflight EXCEPT ![i] =
                      [p EXCEPT !.pc = "retrieved", !.relevantDocs = docs,
                                !.contextText = formatContext(docs, MAX_CONTEXT_LENGTH),
                                !.sources = formatSources(docs)]]
  /\ UNCHANGED <<req, supabaseInstance, soloVars, answerVars, outputVars, fnVars>>

NextTwo ==
  \E i \in DOMAIN inflight :
    \/ TwoStart(i)
    \/ TwoEmbed(i)
    \/ TwoSearch(i)
    \/ TwoKeyword(i)
    \/ TwoMerge(i)

SpecTwo == InitTwo /\ [][NextTwo]_vars

(***************************************************************************)
(* GET /api/documents: listDocuments on a store given by the number of     *)
(* chunks of every document.                                               *)
(***************************************************************************)
LIST_LIMIT == 1000

ListNames == {"a.pdf", "b.pdf", "c.pdf"}
ChunkCounts == {0, 1, 999, 1000}
\* the numbers of rows of one document a response is let hold
TakenCounts == {0, 1, 998, 999, 1000}

InitList ==
  /\ req = DefaultReq
  /\ RequestIdle /\ inflight = <<>>
  /\ fnIn \in [op : {"list"}, chunks : [ListNames -> ChunkCounts]]
  /\ fnOut = NoFn

RECURSIVE SumOver(_, _)
SumOver(f, names) ==
  IF names = {} THEN 0
  ELSE LET n == CHOOSE x \in names : TRUE IN f[n] + SumOver(f, names \ {n})

\* the responses the store can give to select(...).limit(1000), which has
\* no order: for every document the number of its rows in the response
LimitedRows(chunks) ==
  {taken \in [ListNames -> TakenCounts] :
     /\ \A n \in ListNames : taken[n] <= chunks[n]
     /\ SumOver(taken, ListNames) = Min(SumOver(chunks, ListNames), LIST_LIMIT)}

\* the orders the documents can come in
NameOrders ==
  {order \in [1..Cardinality(ListNames) -> ListNames] :
     \A i, j \in DOMAIN order : order[i] = order[j] => i = j}

\* the store answers: the names of the rows are collected in a Set, and GET
\* answers with the names and their number
ListDocumentsOk ==
  /\ fnIn.op = "list" /\ fnOut = NoFn
  /\ \E taken \in LimitedRows(fnIn.chunks), order \in NameOrders :
       LET documents == SelectIdx(order, {i \in DOMAIN order : taken[order[i]] > 0}, 1)
       IN fnOut' = [op |-> "listed", status |-> 200, success |-> TRUE,
                    documents |-> documents, count |-> Len(documents)]
  /\ UNCHANGED <<req, supabaseInstance, pc, retrievalVars, answerVars, outputVars, fnIn>>

\* the store answers with an error: listDocuments throws, GET answers 500
ListDocumentsFail ==
  /\ fnIn.op = "list" /\ fnOut = NoFn
  /\ fnOut' = [op |-> "listed", status |-> 500, error |-> "Failed to list documents",
               details |-> "Failed to list documents: connection refused"]
  /\ UNCHANGED <<req, supabaseInstance, pc, retrievalVars, answerVars, outputVars, fnIn>>

NextList == ListDocumentsOk \/ ListDocumentsFail

SpecList == InitList /\ [][NextList]_vars

(***************************************************************************)
(* searchDocumentsByKeywords on arbitrary keyword lists.                   *)
(***************************************************************************)
KeywordPool == <<"is", "nasa", "mars", "rover", "agency", "2021", "refers">>
KeywordMatchCounts == {1, 10}

\* the keyword lists: the pool with any of its words left out
KeywordLists ==
  {SelectIdx(KeywordPool, keep, 1) : keep \in SUBSET DOMAIN KeywordPool}

InitKeywords ==
  /\ req = DefaultReq
  /\ RequestIdle /\ inflight = <<>>
  /\ fnIn \in [op : {"keywords"}, keywords : KeywordLists,
               matchCount : KeywordMatchCounts]
  /\ fnOut = NoFn

\* the call up to its first await: getSupabase, the valid keywords, and the
\* return of [] when there is none
KeywordSearchStart ==
  /\ fnIn.op = "keywords" /\ fnOut = NoFn
  /\ StoreClientOk
  /\ supabaseInstance' = getSupabase(supabaseInstance, req.configured)
  /\ fnOut' = IF Len(validKeywordsOf(fnIn.keywords)) = 0
                THEN [op |-> "searched", results |-> <<>>, queried |-> <<>>]
                ELSE [op |-> "querying", allResults |-> <<>>, queried |-> <<>>]
  /\ UNCHANGED <<req, pc, retrievalVars, answerVars, outputVars, fnIn>>

\* one keyword query returns, with an error (skipped) or with rows (counted);
\* after the last one the results are scored, sorted and cut.  queried keeps
\* what every query was asked and what it returned.
KeywordSearchQuery ==
  /\ fnIn.op = "keywords" /\ fnOut.op = "querying"
  /\ \E asked \in {QueriedKeywords(fnIn.keywords)} :
       LET k == Len(fnOut.queried) + 1
           total == Len(validKeywordsOf(fnIn.keywords))
           finish(all, outcome) ==
             LET queried == Append(fnOut.queried, outcome)
             IN fnOut' = IF k = Len(asked)
                           THEN [op |-> "searched",
                                 results |-> KeywordResults(all, total, fnIn.matchCount),
                                 queried |-> queried]
                           ELSE [op |-> "querying", allResults |-> all,
                                 queried |-> queried]
       IN \/ finish(fnOut.allResults, [keyword |-> asked[k], error |-> TRUE, rows |-> {}])
          \/ \E rows \in LimitChoices(IlikeRows(asked[k], ""), fnIn.matchCount) :
               \E all \in {CountMatches(fnOut.allResults, SelectIdx(Store, rows, 1), 1)} :
                 finish(all, [keyword |-> asked[k], error |-> FALSE, rows |-> rows])
  /\ UNCHANGED <<req, supabaseInstance, pc, retrievalVars, answerVars, outputVars, fnIn>>

NextKeywords == KeywordSearchStart \/ KeywordSearchQuery

SpecKeywords == InitKeywords /\ [][NextKeywords]_vars

(***************************************************************************)
(* The rerank score of one candidate by the length of its content.         *)
(***************************************************************************)
ContentLengths == {0, 1, 49, 50, 51, 99, 100, 101, 299, 300, 301, 499, 500, 501, 1000}
\* how a content starts: with nothing of the query, or with words of it
ContentStarts == {"", "NASA is the space agency of the United States. "}
LengthQueries == {"What is NASA?", "Tell me about it"}

\* a content of n characters (of the start alone when that is longer)
ContentOf(start, n) ==
  IF Len(start) >= n THEN SubSeq(start, 1, n) ELSE start \o Pad(n - Len(start))

InitLength ==
  /\ req = DefaultReq
  /\ RequestIdle /\ inflight = <<>>
  /\ fnIn \in [op : {"length"}, length : ContentLengths, start : ContentStarts,
               query : LengthQueries, similarity : RerankSims]
  /\ fnOut = NoFn

\* documents.map of rerankDocuments on one candidate: its rerankScore, and
\* the part of it the four tests on doc.content.length add
ScoreCandidate ==
  /\ fnIn.op = "length" /\ fnOut = NoFn
  /\ \E doc \in {[id |-> 1, content |-> ContentOf(fnIn.start, fnIn.length),
                  metadata |-> Meta("a.pdf", 1, 0), similarity |-> fnIn.similarity]} :
       LET questionTypeOf == detectQuestionType(fnIn.query)
           terms == extractSearchTerms(fnIn.query, questionTypeOf)
           queryKeywords == extractKeywords(fnIn.query)
       IN fnOut' = [op |-> "scored", length |-> Len(doc.content),
                    keywords |-> Len(queryKeywords),
                    adjust |-> LengthAdjust(Len(doc.content)),
                    rerankScore |-> RerankScore(doc, terms, queryKeywords,
                                                questionTypeOf)]
  /\ UNCHANGED <<req, supabaseInstance, pc, retrievalVars, answerVars, outputVars, fnIn>>

NextLength == ScoreCandidate

SpecLength == InitLength /\ [][NextLength]_vars

(***************************************************************************)
(* Promise.all of retrieveContext on two given result lists: the searches  *)
(* settle in either order, each into its place of the result array.        *)
(***************************************************************************)
OrderSims == {60, 114}
OrderDocs == {Matched(Store[id], sim) : id \in 1..MaxMergeId, sim \in OrderSims}

\* a place of the result array that is not filled yet
Unsettled == [settled |-> FALSE, value |-> <<>>]

InitOrder ==
  /\ req = DefaultReq
  /\ RequestIdle /\ inflight = <<>>
  /\ fnIn \in [op : {"settle"}, semantic : SeqsUpTo(OrderDocs, MaxListLen),
               keyword : SeqsUpTo(OrderDocs, MaxListLen)]
  /\ fnOut = NoFn

\* both searches are started; neither has settled
StartSearches ==
  /\ fnIn.op = "settle" /\ fnOut = NoFn
  /\ fnOut' = [op |-> "pending", results |-> <<Unsettled, Unsettled>>, order |-> <<>>]
  /\ UNCHANGED <<req, supabaseInstance, pc, retrievalVars, answerVars, outputVars, fnIn>>

\* the embedding search resolves: place 1 of the array
SettleEmbedding ==
  /\ fnOut.op = "pending" /\ ~fnOut.results[1].settled
  /\ fnOut' = [fnOut EXCEPT !.results[1] = [settled |-> TRUE, value |-> fnIn.semantic],
                            !.order = Append(@, "embedding")]
  /\ UNCHANGED <<req, supabaseInstance, pc, retrievalVars, answerVars, outputVars, fnIn>>

\* the keyword search resolves: place 2 of the array
SettleKeyword ==
  /\ fnOut.op = "pending" /\ ~fnOut.results[2].settled
  /\ fnOut' = [fnOut EXCEPT !.results[2] = [settled |-> TRUE, value |-> fnIn.keyword],
                            !.order = Append(@, "keyword")]
  /\ UNCHANGED <<req, supabaseInstance, pc, retrievalVars, answerVars, outputVars, fnIn>>

\* the merge of the lists in the order the searches settled in
MergeSettled_CompletionOrder ==
  /\ fnOut.op = "pending"
  /\ fnOut.results[1].settled /\ fnOut.results[2].settled
  /\ fnOut' = [op |-> "merged", order |-> fnOut.order,
               merged |-> IF fnOut.order[1] = "embedding"
                            THEN MergeResults(fnOut.results[1].value,
                                              fnOut.results[2].value)
                            ELSE MergeResults(fnOut.results[2].value,
                                              fnOut.results[1].value)]
  /\ UNCHANGED <<req, supabaseInstance, pc, retrievalVars, answerVars, outputVars, fnIn>>

\* Promise.all resolves: [embeddingResults, keywordResults] are the places 1
\* and 2 of the array, and the merge runs
MergeSettled ==
  /\ fnOut.op = "pending"
  /\ fnOut.results[1].settled /\ fnOut.results[2].settled
  /\ fnOut' = [op |-> "merged", order |-> fnOut.order,
               merged |-> MergeResults(fnOut.results[1].value, fnOut.results[2].value)]
  /\ UNCHANGED <<req, supabaseInstance, pc, retrievalVars, answerVars, outputVars, fnIn>>

NextOrder == StartSearches \/ SettleEmbedding \/ SettleKeyword \/ MergeSettled

SpecOrder == InitOrder /\ [][NextOrder]_vars

(***************************************************************************)
(* The chat client (components/ChatInterface.tsx, handleSubmit) on the     *)
(* output of POST /api/chat, read in pieces.                               *)
(***************************************************************************)
\* the most chunk events of an output, and the longest read that is not the
\* whole rest of the output
MaxChunks == 2
MaxRead == 3

ChunkContents == {"Hi", "a\nb"}
ClientSources == <<"a.pdf (pages: 1)">>
ClientError == "429 quota exceeded"
NO_RESPONSE == "I couldn't generate a response. Please try again."

\* JSON.stringify of a string: quotes around it, and the quote, the
\* backslash and the line feed escaped
RECURSIVE EscapeJson(_, _)
EscapeJson(str, i) ==
  IF i > Len(str) THEN ""
  ELSE LET c == Char(str, i)
       IN (IF c = "\"" THEN "\\\""
           ELSE IF c = "\\" THEN "\\\\"
           ELSE IF c = "\n" THEN "\\n"
           ELSE c) \o EscapeJson(str, i + 1)

JsonString(str) == "\"" \o EscapeJson(str, 1) \o "\""

\* JSON.stringify of the events of the route
JsonOf(event) ==
  CASE event.type = "chunk" ->
         "{\"type\":\"chunk\",\"content\":" \o JsonString(event.content) \o "}"
    [] event.type = "sources" ->
         "{\"type\":\"sources\",\"sources\":["
           \o join([i \in DOMAIN event.sources |-> JsonString(event.sources[i])], ",")
           \o "]}"
    [] event.type = "done" ->
         "{\"type\":\"done\",\"chunks\":" \o Char("0123456789", event.chunks + 1) \o "}"
    [] event.type = "error" ->
         "{\"type\":\"error\",\"error\":" \o JsonString(event.error)
           \o ",\"isRateLimit\":" \o (IF event.isRateLimit THEN "true" ELSE "false")
           \o "}"

\* what the route enqueues for the events
RECURSIVE WireOf(_, _)
WireOf(sent, i) ==
  IF i > Len(sent) THEN ""
  ELSE "data: " \o JsonOf(sent[i]) \o "\n\n" \o WireOf(sent, i + 1)

\* the outputs of the route: chunk events, then sources and done, or error
ClientOutputs ==
  UNION {LET chunks == [i \in DOMAIN contents |->
                          [type |-> "chunk", content |-> contents[i]]]
         IN {chunks \o <<[type |-> "error", error |-> ClientError,
                          isRateLimit |-> TRUE]>>,
             chunks \o <<[type |-> "sources", sources |-> ClientSources],
                         [type |-> "done", chunks |-> Len(contents)]>>} :
           contents \in SeqsUpTo(ChunkContents, MaxChunks)}

\* the events a text can be the JSON of
ParsableEvents(sent) == {sent[i] : i \in DOMAIN sent}

\* buffer.split("\n")
SplitLines(text) ==
  LET cuts == {0, Len(text) + 1} \cup {i \in 1..Len(text) : Char(text, i) = "\n"}
      cut(k) == CHOOSE c \in cuts : Cardinality({d \in cuts : d < c}) = k - 1
  IN [k \in 1..(Cardinality(cuts) - 1) |-> SubSeq(text, cut(k) + 1, cut(k + 1) - 1)]

\* the body of for (const line of lines), from line i on: JSON.parse of a
\* line that starts with "data: ", and the branch of the event.  A text that
\* is no JSON throws, and so does the error branch; the catch block around
\* both logs and goes on.
RECURSIVE HandleLines(_, _, _, _)
HandleLines(st, lines, i, sent) ==
  IF i > Len(lines) THEN st
  ELSE LET line == lines[i]
           text == SubSeq(line, 7, Len(line))
           parsed == {e \in ParsableEvents(sent) : JsonOf(e) = text}
       IN IF Len(line) < 6 \/ SubSeq(line, 1, 6) # "data: " \/ parsed = {}
            THEN HandleLines(st, lines, i + 1, sent)
          ELSE LET data == CHOOSE e \in parsed : TRUE
                   seen == [st EXCEPT !.parsed = Append(@, data)]
               IN HandleLines(
                    IF data.type = "chunk" /\ data.content # ""
                      THEN [seen EXCEPT !.hasReceivedContent = TRUE,
                                        !.content = @ \o data.content]
                    ELSE IF data.type = "sources"
                      THEN [seen EXCEPT !.sources = data.sources]
                    ELSE IF data.type = "done"
                      THEN [seen EXCEPT !.shown = st.sources]
                    ELSE seen,
                    lines, i + 1, sent)

\* one turn of the read loop without the buffer: the lines of the piece read
ProcessRead_NoBuffer(st, value, sent) ==
  LET lines == SplitLines(value)
  IN [HandleLines(st, SubSeq(lines, 1, Len(lines) - 1), 1, sent) EXCEPT !.buffer = ""]

\* one turn of the read loop: the piece is added to the buffer, the last and
\* incomplete line stays in the buffer, the others are handled
ProcessRead(st, value, sent) ==
  LET lines == SplitLines(st.buffer \o value)
  IN [HandleLines(st, SubSeq(lines, 1, Len(lines) - 1), 1, sent) EXCEPT
        !.buffer = lines[Len(lines)]]

InitClient ==
  /\ req = DefaultReq
  /\ RequestIdle /\ inflight = <<>>
  /\ fnIn \in [op : {"client"}, sent : ClientOutputs]
  /\ fnOut = NoFn

\* handleSubmit up to the read loop: the placeholder of the assistant
\* message, the request, the 200 response and its reader
ClientSubmit ==
  /\ fnIn.op = "client" /\ fnOut = NoFn
  /\ fnOut' = [op |-> "reading", pos |-> 0, buffer |-> "", content |-> "",
               sources |-> <<>>, shown |-> <<>>, hasReceivedContent |-> FALSE,
               parsed |-> <<>>, isLoading |-> TRUE]
  /\ UNCHANGED <<req, supabaseInstance, pc, retrievalVars, answerVars, outputVars, fnIn>>

\* reader.read() resolves with a piece of the output: of 1 to MaxRead
\* characters, or all that is left
ClientRead ==
  /\ fnOut.op = "reading"
  /\ \E wire \in {WireOf(fnIn.sent, 1)} :
       /\ fnOut.pos < Len(wire)
       /\ \E n \in (1..MaxRead) \cup {Len(wire) - fnOut.pos} :
            /\ fnOut.pos + n <= Len(wire)
            /\ \E st \in {ProcessRead(fnOut, SubSeq(wire, fnOut.pos + 1, fnOut.pos + n),
                                      fnIn.sent)} :
                 fnOut' = [st EXCEPT !.pos = fnOut.pos + n]
  /\ UNCHANGED <<req, supabaseInstance, pc, retrievalVars, answerVars, outputVars, fnIn>>

\* reader.read() resolves with done: the loop is left, the message of no
\* content is set when no chunk came, and finally resets isLoading
ClientEnd ==
  /\ fnOut.op = "reading"
  /\ fnOut.pos = Len(WireOf(fnIn.sent, 1))
  /\ fnOut' = [fnOut EXCEPT !.op = "finished",
                            !.content = IF fnOut.hasReceivedContent THEN @
                                        ELSE NO_RESPONSE,
                            !.isLoading = FALSE]
  /\ UNCHANGED <<req, supabaseInstance, pc, retrievalVars, answerVars, outputVars, fnIn>>

NextClient == ClientSubmit \/ ClientRead \/ ClientEnd

SpecClient == InitClient /\ [][NextClient]_vars

(***************************************************************************)
(* POST /api/upload: validation, parsePDF, chunkDocument,                  *)
(* generateEmbeddings in batches, storeDocuments.  A chunk is given by its *)
(* chunk_index, a text by the chunk it is the content of.                  *)
(***************************************************************************)
MAX_FILE_SIZE == 10485760
EMBEDDING_BATCH_SIZE == 100

FileTypes == {"application/pdf", "text/plain"}
FileSizes == {1024, MAX_FILE_SIZE, MAX_FILE_SIZE + 1}
\* the numbers of chunks chunkDocument makes of a file
UploadChunkCounts == {0, 1, 100, 101, 250}
\* the numbers of rows in the store before the upload
StoredBefore == {0, 2}

\* the vector the embedding service gives for a text
EmbeddingOfText(text) == <<"embedding of", text>>

ChunkOfFile(i) == [content |-> <<"text of chunk", i>>, metadata |-> Meta("new.pdf", 1, i)]
RowBefore(i) ==
  [content |-> <<"text of row", i>>, metadata |-> Meta("old.pdf", 1, i),
   embedding |-> EmbeddingOfText(<<"text of row", i>>)]

Upload400(msg) == [op |-> "responded", status |-> 400, error |-> msg]
Upload500(msg) ==
  [op |-> "responded", status |-> 500, error |-> "Failed to process PDF", details |-> msg]

InitUpload ==
  /\ req = DefaultReq
  /\ RequestIdle /\ inflight = <<>>
  /\ fnIn \in {f \in [op : {"upload"}, hasFile : BOOLEAN, type : FileTypes,
                      size : FileSizes, chunkCount : UploadChunkCounts,
                      before : StoredBefore] :
                 ~f.hasFile => (f.type = "application/pdf" /\ f.size = 1024
                                /\ f.chunkCount = 0)}
  /\ fnOut = NoFn

\* the table at the start of the upload
StoreBefore == [i \in 1..fnIn.before |-> RowBefore(i)]

\* the form is read and the file is validated; a valid file is handed to
\* parsePDF
UploadReceive ==
  /\ fnIn.op = "upload" /\ fnOut = NoFn
  /\ fnOut' =
       [store |-> StoreBefore, inserts |-> 0] @@
       (IF ~fnIn.hasFile THEN Upload400("No file provided")
        ELSE IF fnIn.type # "application/pdf"
          THEN Upload400("Only PDF files are supported")
        ELSE IF fnIn.size > MAX_FILE_SIZE THEN Upload400("File size exceeds 10MB limit")
        ELSE [op |-> "parsing"])
  /\ UNCHANGED <<req, supabaseInstance, pc, retrievalVars, answerVars, outputVars, fnIn>>

\* a step of the pipeline throws: the catch block answers 500
UploadFail(at, msg) ==
  /\ fnOut.op = at
  /\ fnOut' = [store |-> fnOut.store, inserts |-> fnOut.inserts] @@ Upload500(msg)
  /\ UNCHANGED <<req, supabaseInstance, pc, retrievalVars, answerVars, outputVars, fnIn>>

ParseOk ==
  /\ fnOut.op = "parsing"
  /\ fnOut' = [fnOut EXCEPT !.op = "chunking"]
  /\ UNCHANGED <<req, supabaseInstance, pc, retrievalVars, answerVars, outputVars, fnIn>>

ParseFail == UploadFail("parsing", "Failed to parse PDF")

\* chunkDocument returns: no chunk is a 400, else generateEmbeddings starts
\* and sends its first batch
ChunkOk ==
  /\ fnOut.op = "chunking"
  /\ fnOut' =
       IF fnIn.chunkCount = 0
         THEN [store |-> fnOut.store, inserts |-> fnOut.inserts] @@
              Upload400("No text content could be extracted from the PDF")
         ELSE [op |-> "embedding", store |-> fnOut.store, inserts |-> fnOut.inserts,
               chunks |-> [i \in 1..fnIn.chunkCount |-> ChunkOfFile(i - 1)],
               i |-> 0, allEmbeddings |-> <<>>, batches |-> 0]
  /\ UNCHANGED <<req, supabaseInstance, pc, retrievalVars, answerVars, outputVars, fnIn>>

ChunkFail == UploadFail("chunking", "Failed to chunk document")

\* allEmbeddings with the batch put in front of it
PushBatch_InFront(allEmbeddings, batchEmbeddings) == batchEmbeddings \o allEmbeddings

\* allEmbeddings.push(...batchEmbeddings)
PushBatch(allEmbeddings, batchEmbeddings) == allEmbeddings \o batchEmbeddings

\* embedDocuments returns for the batch texts.slice(i, i + 100); after the
\* last batch documentsToStore is built and storeDocuments sends the insert
EmbedBatchOk ==
  /\ fnOut.op = "embedding"
  /\ LET n == Len(fnOut.chunks)
         last == Min(fnOut.i + EMBEDDING_BATCH_SIZE, n)
         batch == [k \in 1..(last - fnOut.i) |-> fnOut.chunks[fnOut.i + k].content]
         all == PushBatch(fnOut.allEmbeddings,
                          [k \in DOMAIN batch |-> EmbeddingOfText(batch[k])])
     IN IF fnOut.i + EMBEDDING_BATCH_SIZE < n
          THEN fnOut' = [fnOut EXCEPT !.i = @ + EMBEDDING_BATCH_SIZE,
                                      !.allEmbeddings = all, !.batches = @ + 1]
          ELSE fnOut' = [op |-> "storing", store |-> fnOut.store,
                         inserts |-> fnOut.inserts, batches |-> fnOut.batches + 1,
                         documentsToStore |->
                           [k \in 1..n |->
                              [content |-> fnOut.chunks[k].content,
                               metadata |-> fnOut.chunks[k].metadata,
                               embedding |-> all[k]]]]
  /\ UNCHANGED <<req, supabaseInstance, pc, retrievalVars, answerVars, outputVars, fnIn>>

EmbedBatchFail == UploadFail("embedding", "embedding request failed")

\* the insert succeeds: all rows are in the table, and POST answers 200
StoreOk ==
  /\ fnOut.op = "storing"
  /\ StoreClientOk
  /\ supabaseInstance' = getSupabase(supabaseInstance, req.configured)
  /\ fnOut' = [op |-> "responded", status |-> 200, success |-> TRUE,
               totalChunks |-> Len(fnOut.documentsToStore),
               store |-> fnOut.store \o fnOut.documentsToStore,
               inserts |-> fnOut.inserts + 1, batches |-> fnOut.batches]
  /\ UNCHANGED <<req, pc, retrievalVars, answerVars, outputVars, fnIn>>

\* the insert fails as a whole: storeDocuments throws
StoreFail == UploadFail("storing", "Failed to store documents: connection refused")

NextUpload ==
  \/ UploadReceive
  \/ ParseOk \/ ParseFail
  \/ ChunkOk \/ ChunkFail
  \/ EmbedBatchOk \/ EmbedBatchFail
  \/ StoreOk \/ StoreFail

SpecUpload == InitUpload /\ [][NextUpload]_vars

(***************************************************************************)
(* Properties of the request (Spec).                                       *)
(***************************************************************************)
\* retrieveContext has returned its candidates to the orchestrator
AfterRetrieval ==
  \/ pc \in {"generating", "streaming", "returned"}
  \/ pc = "thrown" /\ raised \in GenerationErrors

EventsOfType(type) == {i \in DOMAIN events : events[i].type = type}

\* C1: streamRAGResponse yields only chunk and sources events; a sources event
\* is the last event yielded, so no chunk follows it; and a run in which
\* neither retrieval nor generation fails ends with exactly one sources
\* event, which carries the formatted sources.
C1_ChunksThenOneSourcesLast ==
  /\ \A i \in DOMAIN events :
       /\ events[i].type \in {"chunk", "sources"}
       /\ events[i].type = "sources" => i = Len(events)
  /\ (req.mode = "stream" /\ pc = "returned") =>
       /\ Cardinality(EventsOfType("sources")) = 1
       /\ events[Len(events)] = [type |-> "sources", data |-> sources]

\* a completed stream of two chunks and the sources event
C1_Witness ==
  /\ req.mode = "stream" /\ pc = "returned"
  /\ Len(events) = 3
  /\ events[1].type = "chunk" /\ events[2].type = "chunk"
  /\ events[3].type = "sources"

\* C2: when the generation stream ends without one content chunk, the
\* streaming orchestrator yields exactly one sources event and tells its
\* caller that no answer was produced: by a failure or by an event that is
\* neither chunk nor sources.
C2_EmptyStreamIsSurfaced ==
  (req.mode = "stream" /\ pc = "returned" /\ EventsOfType("chunk") = {}) =>
    /\ Cardinality(EventsOfType("sources")) = 1
    /\ \/ error # ""
       \/ \E i \in DOMAIN events : events[i].type \notin {"chunk", "sources"}

\* C3: generateRAGResponse never returns a result whose answer is the empty
\* string, and POST /api/query never answers such a generation with success.
C3_EmptyAnswerIsSurfaced ==
  req.mode = "single" =>
    /\ ~(result.returned /\ result.answer = "")
    /\ ~(response.status = 200 /\ response.answer = "")

\* the keyword search failed: its promise rejected, or every keyword query
\* it sent returned an error
KeywordSearchFailed ==
  \/ kwRejected
  \/ kwPc = "done" /\ kwErrors > 0 /\ kwErrors = Len(QueriedKeywords(keywords))

\* C4: in the hybrid retrieval a failed keyword search contributes the empty
\* list and no failure: a failure of the request is one of the embedding,
\* the vector search or the generation, and the candidates handed on are the
\* semantic results at or above the threshold, with the similarity the
\* vector search gave them, reranked and cut.
C4_KeywordFailureIsEmptyResult ==
  (req.variant = "hybrid" /\ KeywordSearchFailed) =>
    /\ pc = "thrown" =>
         raised \in {CONFIG_ERROR, EMBED_ERROR, SEARCH_ERROR} \cup GenerationErrors
    /\ kwPc = "done" => keywordResults = <<>>
    /\ AfterRetrieval =>
         /\ filtered = SelectIdx(embeddingResults,
                         {i \in DOMAIN embeddingResults :
                            embeddingResults[i].similarity >= SIMILARITY_THRESHOLD}, 1)
         /\ Range(relevantDocs) \subseteq Range(embeddingResults)
         /\ Len(relevantDocs) = Min(Len(filtered), RERANK_TOP_K)

\* a rejected keyword search, and semantic results that contain the keyword
\* handed on to the generation
C4_Witness ==
  /\ req.variant = "hybrid" /\ kwRejected /\ pc = "generating"
  /\ Len(keywords) > 0
  /\ \E i \in DOMAIN relevantDocs :
       includes(toLowerCase(relevantDocs[i].content), keywords[1])

\* C5: a failure of the embedding, of the vector search or of the generation
\* reaches the caller of the orchestrator as it was raised: the orchestrator
\* has thrown it, has returned no result, and has yielded no sources event.
C5_FailurePropagates ==
  raised # "" =>
    /\ pc = "thrown"
    /\ error = raised
    /\ ~result.returned
    /\ EventsOfType("sources") = {}

\* the vector search fails after the keyword search has returned results
C5_Witness ==
  /\ req.variant = "hybrid" /\ req.mode = "stream"
  /\ kwPc = "done" /\ Len(keywordResults) > 0
  /\ raised = SEARCH_ERROR /\ pc = "thrown"

\* C7: the candidates retrieveContext returns are at most RERANK_TOP_K in
\* the hybrid version and at most the requested topK in the multi-query
\* version, and so is the context of a returned result.
C7_AtMostTopK ==
  LET cap == IF req.variant = "hybrid" THEN RERANK_TOP_K ELSE req.topK
  IN /\ Len(relevantDocs) <= cap
     /\ result.returned => Len(result.context) <= cap

\* more candidates pass the threshold than the cap lets through
C7_Witness ==
  /\ req.variant = "hybrid" /\ pc = "generating"
  /\ Len(filtered) > RERANK_TOP_K
  /\ Len(relevantDocs) = RERANK_TOP_K

\* the semantic results of similarity 0.05
SemanticAtFiveHundredths ==
  {i \in DOMAIN embeddingResults : embeddingResults[i].similarity * 20 = ONE}

MergedHybrid == req.variant = "hybrid" /\ AfterRetrieval

\* C8, as stated: with the threshold at 0.1, a semantic result of similarity
\* 0.05 is not in the filtered list, whether or not the keyword search
\* returned it too.
C8_LowSemanticAlwaysExcluded ==
  MergedHybrid =>
    \A i \in SemanticAtFiveHundredths : embeddingResults[i].id \notin Ids(filtered)

\* C8, amended: a semantic result of similarity 0.05 is not in the filtered
\* list when the keyword search did not return it; when the keyword search
\* returned it, it is in the filtered list with similarity 0.20.
C8_LowSemanticExcludedUnlessKeyword ==
  MergedHybrid =>
    \A i \in SemanticAtFiveHundredths :
      LET id == embeddingResults[i].id IN
      IF id \in Ids(keywordResults)
        THEN \E j \in DOMAIN filtered :
               filtered[j].id = id /\ filtered[j].similarity * 5 = ONE
        ELSE id \notin Ids(filtered)

\* a semantic result of similarity 0.05 that contains every query keyword
\* and is in the filtered list
C8_Witness ==
  /\ MergedHybrid
  /\ Len(keywords) > 0
  /\ \E i \in SemanticAtFiveHundredths :
       /\ \A k \in DOMAIN keywords :
            includes(toLowerCase(embeddingResults[i].content), keywords[k])
       /\ embeddingResults[i].id \in Ids(filtered)

(***************************************************************************)
(* Properties of the merge (SpecMerge).                                    *)
(***************************************************************************)
DistinctIds(docs) ==
  \A i, j \in DOMAIN docs : docs[i].id = docs[j].id => i = j

\* C6: the merged candidate list holds every chunk id at most once, whatever
\* the two lists are: overlapping or not, with or without a repeated id.
C6_MergedIdsDistinct ==
  fnOut.op \in {"hybrid", "multi"} => DistinctIds(fnOut.merged)

\* a semantic list that repeats an id the keyword list holds too
C6_Witness ==
  /\ fnOut.op = "hybrid"
  /\ ~DistinctIds(fnIn.semantic)
  /\ Ids(fnIn.semantic) \cap Ids(fnIn.keyword) # {}
  /\ Len(fnOut.merged) = 1

(***************************************************************************)
(* Properties of formatContext (SpecFormat).                               *)
(***************************************************************************)
PageOf(doc) == doc.metadata.page_number

\* C9: the blocks of the context are in ascending page order, the blocks of
\* one page in the order of the input list (a candidate's id is its place in
\* the list); the context is these blocks, one after the other.
C9_PagesAscendingInputOrderWithin ==
  fnOut.op = "formatContext" =>
    LET b == fnOut.blocks IN
    /\ \A i, j \in DOMAIN b :
         i < j => \/ PageOf(b[i]) < PageOf(b[j])
                  \/ PageOf(b[i]) = PageOf(b[j]) /\ b[i].id < b[j].id
    /\ Len(fnIn.documents) > 0 =>
         fnOut.context = trim(join([i \in DOMAIN b |-> Section(b[i])], ""))

\* two candidates of page 3 before one of page 1: the page 1 block comes
\* first, then the page 3 blocks in input order
C9_Witness ==
  /\ fnOut.op = "formatContext"
  /\ [i \in DOMAIN fnIn.documents |-> PageOf(fnIn.documents[i])] = <<3, 3, 1>>
  /\ [i \in DOMAIN fnOut.blocks |-> fnOut.blocks[i].id] = <<3, 1, 2>>

\* the candidates in page order, input order within a page
PageOrdered(documents) ==
  SortDescByKeys(documents, [i \in DOMAIN documents |-> 0 - PageOf(documents[i])])

\* C10: the blocks of the context are a prefix of the candidates in page
\* order: once a block does not fit the budget no later block is rendered;
\* and the blocks rendered do not exceed the budget.
C10_NothingAfterFirstOverflow ==
  fnOut.op = "formatContext" =>
    /\ fnOut.blocks = SubSeq(PageOrdered(fnIn.documents), 1, Len(fnOut.blocks))
    /\ Len(fnOut.context) <= fnOut.maxLength

(***************************************************************************)
(* Properties of formatSources (SpecSources).                              *)
(***************************************************************************)
NamesOf(documents) == {documents[i].metadata.document_name : i \in DOMAIN documents}

PagesOfName(documents, name) ==
  {documents[i].metadata.page_number :
     i \in {j \in DOMAIN documents : documents[j].metadata.document_name = name}}

\* the strictly ascending sequences that hold every page of the set once
AscendingListings(pages) ==
  {ps \in [1..Cardinality(pages) -> pages] :
     \A i, j \in DOMAIN ps : i < j => ps[i] < ps[j]}

SourceString(name, ps) ==
  name \o " (pages: " \o join([i \in DOMAIN ps |-> ToString(ps[i])], ", ") \o ")"

\* C11: formatSources returns one string per distinct document name, and the
\* string of a name lists the pages of the name's candidates in strictly
\* ascending order, each page once.
C11_OneSourcePerNameAscendingPages ==
  fnOut.op = "formatSources" =>
    LET documents == fnIn.documents
        out == fnOut.sources
    IN /\ Len(out) = Cardinality(NamesOf(documents))
       /\ \A name \in NamesOf(documents) :
            \E ps \in AscendingListings(PagesOfName(documents, name)) :
              Cardinality({i \in DOMAIN out : out[i] = SourceString(name, ps)}) = 1

\* a candidate of b.pdf, then candidates of a.pdf on pages 10 and 2
C11_Witness ==
  /\ fnOut.op = "formatSources"
  /\ [i \in DOMAIN fnIn.documents |-> fnIn.documents[i].metadata.page_number] = <<1, 10, 2>>
  /\ fnOut.sources = <<"b.pdf (pages: 1)", "a.pdf (pages: 2, 10)">>

(***************************************************************************)
(* Properties of rerankDocuments (SpecRerank).                             *)
(***************************************************************************)
\* C12: rerankDocuments returns candidates of its argument (a candidate's id
\* is its place in the argument) in descending order of rerankScore,
\* candidates of equal score in the order of the argument; a second call
\* with the same arguments returns the same candidates and scores.
C12_DescendingStableRepeatable ==
  fnOut.op \in {"rerank", "rerankTwice"} =>
    LET ranked == fnOut.first.ranked
        scores == fnOut.first.scores
    IN /\ Len(ranked) = Min(Len(fnIn.documents), fnIn.topK)
       /\ \A i \in DOMAIN ranked : ranked[i] = fnIn.documents[ranked[i].id]
       /\ \A i, j \in DOMAIN ranked :
            i < j => \/ scores[i] > scores[j]
                     \/ scores[i] = scores[j] /\ ranked[i].id < ranked[j].id
       /\ fnOut.op = "rerankTwice" => fnOut.second = fnOut.first

\* two calls on three candidates of which the last beats two that tie
C12_Witness ==
  /\ fnOut.op = "rerankTwice"
  /\ Len(fnOut.first.ranked) = 3
  /\ [i \in 1..3 |-> fnOut.first.ranked[i].id] = <<3, 1, 2>>
  /\ fnOut.first.scores[2] = fnOut.first.scores[3]
  /\ fnOut.first.scores[1] > fnOut.first.scores[2]

(***************************************************************************)
(* Properties of the query analysis (SpecQuery).                           *)
(***************************************************************************)
\* C13: for the query "What is NASA?" the type is "definition", the primary
\* terms are NASA alone, and the search query is
\* "NASA definition meaning characteristics".
C13_WhatIsNasa ==
  fnIn.op = "query" /\ fnIn.query = "What is NASA?" =>
    /\ fnOut.op \in {"classified", "terms", "built"} =>
         fnOut.questionType = "definition"
    /\ fnOut.op \in {"terms", "built"} => fnOut.terms.primaryTerms = <<"NASA">>
    /\ fnOut.op = "built" =>
         fnOut.searchQuery = "NASA definition meaning characteristics"

(***************************************************************************)
(* Properties of the routes (Spec).                                        *)
(***************************************************************************)
\* the query is missing, is not a string, or holds nothing but white space
QueryUnusable ==
  \/ req.queryType # "string"
  \/ \A i \in 1..Len(req.query) : IsSpace(Char(req.query, i))

\* C14: a request whose query is missing, is not a string or is empty after
\* trimming is answered with status 400 and nothing else happens for it: no
\* embedding, store or generation call, no event stream.
C14_InvalidQueryRejected ==
  QueryUnusable =>
    /\ pc \in {"start", "rejected"}
    /\ pc = "rejected" => response.status = 400
    /\ pc = "start" => response = NoResponse
    /\ embPc = "idle" /\ kwPc = "idle" /\ supabaseInstance = NoInstance
    /\ fragments = 0 /\ events = <<>> /\ ~result.returned
    /\ sse = <<>> /\ closed = 0

\* POST /api/chat has turned down a query of blanks
C14_Witness ==
  /\ req.mode = "stream" /\ req.queryType = "string" /\ req.query = "  "
  /\ pc = "rejected" /\ response.status = 400

\* the failures that are rate-limit failures: the 429 of the model service
RateLimitFailures == {"429 quota exceeded"}

ErrorEvents == {i \in DOMAIN sse : sse[i].type = "error"}

\* C15: a failed run of POST /api/chat whose client is still there has
\* enqueued exactly one error event; the event is marked as rate-limit, with the "temporarily busy" message,
\* exactly when the failure is a rate-limit failure, and otherwise carries
\* the message of the failure.
C15_RateLimitMarkedExactly ==
  (req.mode = "stream" /\ pc = "thrown" /\ ~cancelled) =>
    /\ Cardinality(ErrorEvents) = 1
    /\ \A i \in ErrorEvents :
         IF raised \in RateLimitFailures
           THEN /\ sse[i].isRateLimit
                /\ sse[i].error =
                     "The AI service is temporarily busy. Please wait a moment and try again."
           ELSE /\ ~sse[i].isRateLimit
                /\ sse[i].error = raised

\* C16: once the client has cancelled the response stream of an answer that
\* is being streamed, the server reads no further fragment of the
\* generation stream and makes no further enqueue or close call on the
\* response stream.
C16_NothingAfterDisconnect ==
  (cancelled /\ pc \in {"streaming", "abandoned"}) => lateReads = 0 /\ lateWrites = 0

(***************************************************************************)
(* Properties of requests side by side (SpecTwo).                          *)
(***************************************************************************)
\* the keyword results of a call that runs alone
RECURSIVE KeywordAlone(_, _, _, _, _)
KeywordAlone(kws, k, all, topK, documentFilter) ==
  LET asked == QueriedKeywords(kws) IN
  IF k > Len(asked) THEN KeywordResults(all, Len(validKeywordsOf(kws)), topK)
  ELSE KeywordAlone(kws, k + 1,
         CountMatches(all, SelectIdx(Store, FirstRows(IlikeRows(asked[k], documentFilter),
                                                      topK), 1), 1),
         topK, documentFilter)

\* the candidates of a call that runs alone
CandidatesAlone(query, topK, documentFilter) ==
  LET type == detectQuestionType(query)
      kws == extractKeywords(query)
      semantic == MatchDocuments(EmbeddingOf(buildSearchQuery(query, type)), topK,
                                 documentFilter)
      keyword == IF Len(kws) > 0 THEN KeywordAlone(kws, 1, <<>>, topK, documentFilter)
                 ELSE <<>>
  IN rerankDocuments(FilterByThreshold(MergeResults(semantic, keyword),
                                       SIMILARITY_THRESHOLD),
                     query, type, RERANK_TOP_K)

\* C17: whatever the interleaving of two requests at their awaits, a request
\* whose retrieval has returned holds the candidates, the context and the
\* sources it has when it runs alone against the same store; a request
\* fails only for the missing configuration, which fails it alone too.
C17_SameAsAlone ==
  \A i \in DOMAIN inflight :
    LET p == inflight[i] IN
    /\ p.pc = "retrieved" =>
         /\ req.configured
         /\ p.relevantDocs = CandidatesAlone(p.query, p.topK, p.documentFilter)
         /\ p.contextText = formatContext(p.relevantDocs, MAX_CONTEXT_LENGTH)
         /\ p.sources = formatSources(p.relevantDocs)
    /\ p.pc = "thrown" => ~req.configured /\ p.error = CONFIG_ERROR

\* the first request has its candidates while the second, with another
\* query, is between two of its keyword queries and waits for the store
C17_Witness ==
  /\ Len(inflight) >= 2
  /\ inflight[1].pc = "retrieved" /\ Len(inflight[1].relevantDocs) > 0
  /\ inflight[2].pc = "retrieving" /\ inflight[2].query # inflight[1].query
  /\ inflight[2].kwPc = "querying" /\ inflight[2].kwIndex = 2
  /\ inflight[2].embPc = "searching"

(***************************************************************************)
(* The store client and its configuration (Spec).                          *)
(***************************************************************************)
\* the route has answered the caller with the failure msg
SurfacedAsFailure(msg) ==
  /\ pc = "thrown" /\ error = msg
  /\ ~result.returned /\ events = <<>>
  /\ IF req.mode = "single"
       THEN response.status = 500 /\ response.details = msg
       ELSE cancelled \/
            /\ Len(sse) = 1 /\ sse[1].type = "error" /\ sse[1].error = msg
            /\ closed = 1

\* the request has called getSupabase
StoreUsed == kwRejected \/ kwPc = "querying" \/ embPc = "searching" \/ error = CONFIG_ERROR

\* without credentials: no client is created and nothing of an answer comes
\* out of the request
NoClientNoAnswer ==
  /\ supabaseInstance = NoInstance
  /\ pc \in {"start", "rejected", "retrieving", "thrown"}
  /\ ~result.returned /\ events = <<>> /\ relevantDocs = <<>>
  /\ \A i \in DOMAIN sse : sse[i].type = "error"
  /\ response.status # 200 \/ req.mode = "stream"

\* C19 as stated: without credentials the first use of the store client is
\* the failure of the request, surfaced as the configuration error; no
\* client is created and no answer is given.
C19_FirstUseIsSurfaced ==
  ~req.configured =>
    /\ NoClientNoAnswer
    /\ (StoreUsed /\ pc # "retrieving") => SurfacedAsFailure(CONFIG_ERROR)

\* C19: without credentials no client is created, the request gives no
\* answer, and once it has used the store it ends as a hard failure: the
\* configuration error of searchDocuments, or the failure of the embedding
\* call when that came first (the configuration error of the keyword search
\* is caught).  A client, once created, is the one every later call returns.
C19_ConfigurationFailureIsHard ==
  /\ [](~req.configured =>
          /\ NoClientNoAnswer
          /\ (StoreUsed /\ pc # "retrieving") =>
               \/ SurfacedAsFailure(CONFIG_ERROR)
               \/ kwRejected /\ SurfacedAsFailure(EMBED_ERROR))
  /\ [][supabaseInstance # NoInstance => supabaseInstance' = supabaseInstance]_vars

\* the keyword search has met the configuration error, which was caught, and
\* searchDocuments has met it again: the request has failed with it
C19_Witness ==
  /\ ~req.configured /\ req.variant = "hybrid" /\ req.mode = "single"
  /\ kwRejected /\ keywordResults = <<>>
  /\ SurfacedAsFailure(CONFIG_ERROR)
  /\ supabaseInstance = NoInstance

(***************************************************************************)
(* Properties of GET /api/documents (SpecList).                            *)
(***************************************************************************)
StoredNames == {n \in ListNames : fnIn.chunks[n] > 0}

\* C18: the list GET /api/documents answers with holds every document name
\* that has a chunk in the store, each once, and count is the number of
\* these names.
C18_ListsEveryDocument ==
  (fnOut.op = "listed" /\ fnOut.status = 200) =>
    /\ \A n \in StoredNames :
         Cardinality({i \in DOMAIN fnOut.documents : fnOut.documents[i] = n}) = 1
    /\ fnOut.count = Cardinality(StoredNames)

(***************************************************************************)
(* Order of the steps of one hybrid retrieval (Spec).                      *)
(***************************************************************************)
SearchesStart == (embPc = "idle" /\ embPc' # "idle") \/ (kwPc = "idle" /\ kwPc' # "idle")
RetrievalEnds == pc = "retrieving" /\ pc' = "generating"

\* C20: in a hybrid retrieval both searches are started in the same step,
\* with the question type and the keywords computed and no result of
\* either search taken yet; the merge starts only when both searches have
\* settled, and what is reranked is the merged list after the threshold.
C20_StartBothAwaitBothThenMerge ==
  [][req.variant = "hybrid" =>
       /\ SearchesStart =>
            /\ embPc = "idle" /\ kwPc = "idle"
            /\ embPc' # "idle" /\ kwPc' # "idle"
            /\ questionType' = detectQuestionType(Query)
            /\ keywords' = extractKeywords(Query)
            /\ embeddingResults' = <<>> /\ keywordResults' = <<>>
            /\ filtered' = <<>> /\ relevantDocs' = <<>>
       /\ RetrievalEnds =>
            /\ embPc = "done" /\ kwPc = "done"
            /\ filtered' = FilterByThreshold(MergeResults(embeddingResults, keywordResults),
                                             SIMILARITY_THRESHOLD)
            /\ relevantDocs' = rerankDocuments(filtered', Query, questionType,
                                               RERANK_TOP_K)]_vars

\* both searches have run and returned rows, and the merged and reranked
\* list has been handed on
C20_Witness ==
  /\ req.variant = "hybrid" /\ pc = "generating"
  /\ embPc = "done" /\ kwPc = "done" /\ kwIndex > 1
  /\ embeddingResults # <<>> /\ keywordResults # <<>>
  /\ Len(filtered) < Len(MergeResults(embeddingResults, keywordResults))
  /\ relevantDocs # <<>>

(***************************************************************************)
(* The similarities of the hybrid merge (SpecMerge).                       *)
(***************************************************************************)
\* the places of id in docs, and the first of them
PlacesOf(docs, id) == {i \in DOMAIN docs : docs[i].id = id}
FirstOf(docs, id) == docs[CHOOSE i \in PlacesOf(docs, id) : \A j \in PlacesOf(docs, id) : i <= j]

\* the similarity the merge is to give id: a semantic result keeps its
\* similarity and takes +0.15, capped at 1.0, for every keyword result of
\* its id; a keyword result of a new id enters with +0.2, and takes the
\* capped +0.15 for every further keyword result of its id
MergedSimilarity(semantic, keyword, id) ==
  LET hits == Cardinality(PlacesOf(keyword, id))
      base == IF PlacesOf(semantic, id) # {}
                THEN FirstOf(semantic, id).similarity
                ELSE FirstOf(keyword, id).similarity + 24
      more == IF PlacesOf(semantic, id) # {} THEN hits ELSE hits - 1
  IN IF more = 0 THEN base
     ELSE IF base + 18 * more < 120 THEN base + 18 * more ELSE 120

\* the ids of docs in the order of their first places
FirstIds(docs) ==
  LET firsts == {i \in DOMAIN docs : \A j \in 1..(i - 1) : docs[j].id # docs[i].id}
      at(k) == CHOOSE i \in firsts : Cardinality({j \in firsts : j <= i}) = k
  IN [k \in 1..Cardinality(firsts) |-> docs[at(k)].id]

\* C21: the merged list holds the ids of the semantic results first, then
\* the ids only the keyword search returned, each once; a keyword result of
\* a new id is added with its similarity plus 0.2, a keyword result of an id
\* already there sets the entry to min(existing + 0.15, 1.0), and a semantic
\* result no keyword result matches keeps its similarity.
C21_MergeSimilarities ==
  fnOut.op = "hybrid" =>
    LET both == fnIn.semantic \o fnIn.keyword
        merged == fnOut.merged
    IN /\ [i \in DOMAIN merged |-> merged[i].id] = FirstIds(both)
       /\ \A i \in DOMAIN merged :
            merged[i] = [FirstOf(both, merged[i].id) EXCEPT
                           !.similarity = MergedSimilarity(fnIn.semantic, fnIn.keyword,
                                                           merged[i].id)]

\* a semantic result of 0.95 the keyword search returns too, capped at 1.0,
\* and a keyword result of 0.5 the semantic search did not return, at 0.7
C21_Witness ==
  /\ fnOut.op = "hybrid"
  /\ Len(fnIn.semantic) = 1 /\ fnIn.semantic[1].similarity = 114
  /\ Len(fnIn.keyword) = 2 /\ fnIn.keyword[1].id = fnIn.semantic[1].id
  /\ fnIn.keyword[2].id # fnIn.semantic[1].id /\ fnIn.keyword[2].similarity = 60
  /\ Len(fnOut.merged) = 2
  /\ fnOut.merged[1].similarity = 120 /\ fnOut.merged[2].similarity = 84

(***************************************************************************)
(* Properties of searchDocumentsByKeywords (SpecKeywords).                 *)
(***************************************************************************)
\* the keywords of more than 2 characters, in their order
LongKeywords ==
  LET long == {i \in DOMAIN fnIn.keywords : Len(fnIn.keywords[i]) > 2}
      at(k) == CHOOSE i \in long : Cardinality({j \in long : j <= i}) = k
  IN [k \in 1..Cardinality(long) |-> fnIn.keywords[at(k)]]

\* the chunks the queries returned, and for a chunk the number of queries
\* that returned it
ReturnedChunks == UNION {fnOut.queried[i].rows : i \in DOMAIN fnOut.queried}
QueriesReturning(id) == Cardinality({i \in DOMAIN fnOut.queried : id \in fnOut.queried[i].rows})

\* C22: the keyword search makes at most 5 queries, one for each of the
\* first keywords of more than 2 characters; a query that errors is skipped
\* and the others are made and counted; every result is a chunk some query
\* returned, with similarity min(0.3 + (queries returning it / number of
\* valid keywords) * 0.5, 0.9).
C22_KeywordQueriesAndScores ==
  fnOut.op = "searched" =>
    LET n == Len(LongKeywords)
        made == Len(fnOut.queried)
    IN /\ made <= 5 /\ made = (IF n < 5 THEN n ELSE 5)
       /\ \A i \in DOMAIN fnOut.queried : fnOut.queried[i].keyword = LongKeywords[i]
       /\ Ids(fnOut.results) \subseteq ReturnedChunks
       /\ DistinctIds(fnOut.results)
       /\ Len(fnOut.results) =
            (IF Cardinality(ReturnedChunks) < fnIn.matchCount
               THEN Cardinality(ReturnedChunks) ELSE fnIn.matchCount)
       /\ \A i \in DOMAIN fnOut.results :
            LET score == 36 + (QueriesReturning(fnOut.results[i].id) * 60) \div n
            IN fnOut.results[i].similarity = (IF score < 108 THEN score ELSE 108)

\* six valid keywords and a short one: five queries, the second of which
\* errors, and a chunk that three of the queries returned
C22_Witness ==
  /\ fnOut.op = "searched"
  /\ Len(fnIn.keywords) = 7 /\ Len(LongKeywords) = 6
  /\ Len(fnOut.queried) = 5
  /\ fnOut.queried[2].error /\ ~fnOut.queried[3].error
  /\ \E i \in DOMAIN fnOut.results :
       /\ QueriesReturning(fnOut.results[i].id) = 3
       /\ fnOut.results[i].similarity = 66

(***************************************************************************)
(* The order of the question types (SpecQuery).                            *)
(***************************************************************************)
CategoryOrder ==
  <<"location", "listing", "quantity", "procedure", "cause_effect", "property",
    "example", "time", "definition", "comparison", "explanation">>

\* the alternatives of the pattern of a category
CategoryWords(type) ==
  CASE type = "location" ->
         {"where", "position", "location", "located", "place", "found in",
          "which page", "which section", "which chapter", "which part"}
    [] type = "listing" ->
         {"list", "what are the", "types of", "kinds of", "categories", "enumerate",
          "name all", "give all"}
    [] type = "quantity" ->
         {"how many", "how much", "count", "number of", "total", "percentage", "ratio"}
    [] type = "procedure" ->
         {"how to", "steps", "procedure", "process", "method", "way to", "instructions"}
    [] type = "cause_effect" ->
         {"why", "cause", "effect", "result", "consequence", "reason", "because",
          "leads to"}
    [] type = "property" ->
         {"properties", "characteristics", "features", "attributes", "qualities",
          "aspects"}
    [] type = "example" ->
         {"example", "instance", "such as", "like what", "give me", "show me"}
    [] type = "time" ->
         {"when", "time", "date", "period", "duration", "how long", "before", "after"}
    [] type = "definition" ->
         {"what is", "define", "meaning", "definition", "describe", "explain what"}
    [] type = "comparison" ->
         {"difference", "compare", "vs", "versus", "distinguish", "contrast", "similar",
          "between"}
    [] type = "explanation" -> {"how does", "how do", "explain", "describe how", "works"}

\* the categories whose pattern the lower-cased query matches, by their place
\* in the order
MatchingCategories(query) ==
  {i \in DOMAIN CategoryOrder :
     \E w \in CategoryWords(CategoryOrder[i]) : includes(toLowerCase(query), w)}

\* C23: the classifier returns one type: the first category, in the order
\* location, listing, quantity, procedure, cause_effect, property, example,
\* time, definition, comparison, explanation, whose pattern matches the
\* lower-cased query, and "general" when none matches.
C23_FirstMatchingCategory ==
  fnOut.op = "classified" =>
    \E hits \in {MatchingCategories(fnIn.query)} :
      IF hits = {} THEN fnOut.questionType = "general"
      ELSE \E first \in hits :
             /\ \A i \in hits : first <= i
             /\ fnOut.questionType = CategoryOrder[first]

\* a query that matches the definition and the comparison pattern
C23_Witness ==
  /\ fnOut.op = "classified"
  /\ fnIn.query = "What is the difference between NASA?"
  /\ MatchingCategories(fnIn.query) = {9, 10}
  /\ fnOut.questionType = "definition"

(***************************************************************************)
(* The length adjustment of the rerank score (SpecLength).                 *)
(***************************************************************************)
\* the adjustment by the length n alone, as five ranges
AdjustOfLength(n) ==
  IF n < 50 THEN -30
  ELSE IF n < 100 THEN -10
  ELSE IF n <= 300 THEN 0
  ELSE IF n <= 500 THEN 5
  ELSE 10

\* C24: the length adjustment of the rerank score is -30 for n < 50, -10
\* for 50 <= n < 100, 0 for 100 <= n <= 300, +5 for 300 < n <= 500 and +10
\* for n > 500, whatever the content is; a content that holds nothing of
\* the query has similarity * 100 plus this adjustment as its score (in
\* sixtieths of a point for every query keyword).
C24_LengthAdjustmentByRanges ==
  fnOut.op = "scored" =>
    /\ fnOut.length = fnIn.length
    /\ fnOut.adjust = AdjustOfLength(fnIn.length)
    /\ fnIn.start = "" =>
         fnOut.rerankScore =
           (IF fnOut.keywords > 0 THEN fnOut.keywords ELSE 1)
             * (fnIn.similarity * 50 + 60 * AdjustOfLength(fnIn.length))

\* a content of exactly 50 characters that starts with words of the query:
\* the -10 penalty alone
C24_Witness ==
  /\ fnOut.op = "scored"
  /\ fnIn.length = 50 /\ fnIn.start # ""
  /\ fnOut.adjust = -10

(***************************************************************************)
(* The merge and the order of completion (SpecOrder).                      *)
(***************************************************************************)
\* the merged list of two given lists, whatever the order of completion:
\* the ids of the semantic list, then the ids of the keyword list alone,
\* each with the similarity of the merge
MergedOf(semantic, keyword) ==
  LET ids == FirstIds(semantic \o keyword)
  IN [i \in DOMAIN ids |->
        [FirstOf(semantic \o keyword, ids[i]) EXCEPT
           !.similarity = MergedSimilarity(semantic, keyword, ids[i])]]

\* C25: for given semantic and keyword result lists the merged list is the
\* same in every order of completion of the two searches: the same
\* elements, the semantic results before the keyword-only results, with the
\* same similarities.
C25_MergeIndependentOfCompletion ==
  fnOut.op = "merged" =>
    /\ fnOut.order \in {<<"embedding", "keyword">>, <<"keyword", "embedding">>}
    /\ fnOut.merged = MergedOf(fnIn.semantic, fnIn.keyword)

\* the keyword search settled first, with a result the semantic search
\* returned too and one of its own before it
C25_Witness ==
  /\ fnOut.op = "merged"
  /\ fnOut.order = <<"keyword", "embedding">>
  /\ Len(fnIn.semantic) = 1 /\ Len(fnIn.keyword) = 2
  /\ fnIn.keyword[1].id # fnIn.semantic[1].id
  /\ fnIn.keyword[2].id = fnIn.semantic[1].id
  /\ fnOut.merged[1].id = fnIn.semantic[1].id
  /\ fnOut.merged[2].id = fnIn.keyword[1].id

(***************************************************************************)
(* The end of the response stream of POST /api/chat (Spec).                *)
(***************************************************************************)
StreamOpened == req.mode = "stream" /\ response # NoResponse /\ response.status = 200
TerminalEvents == {i \in DOMAIN sse : sse[i].type \in {"done", "error"}}
ChunkEvents == {i \in DOMAIN sse : sse[i].type = "chunk"}

\* the stream as it is while the run goes on, and as it is left by a run
\* that is over
StreamEndsWell ==
  /\ closed <= 1 /\ Cardinality(TerminalEvents) <= 1
  /\ closed = 1 <=> pc \in {"returned", "thrown", "abandoned"}
  /\ closed = 0 => TerminalEvents = {}
  /\ closed = 1 =>
       /\ TerminalEvents = {Len(sse)}
       /\ sse[Len(sse)].type = (IF raised = "" THEN "done" ELSE "error")
       /\ sse[Len(sse)].type = "done" =>
            sse[Len(sse)].chunks = Cardinality(ChunkEvents)

RECURSIVE ChunksOf(_, _)
ChunksOf(sent, i) ==
  IF i > Len(sent) THEN ""
  ELSE (IF sent[i].type = "chunk" THEN sent[i].content ELSE "") \o ChunksOf(sent, i + 1)

ErrorsOf(sent) == {i \in DOMAIN sent : sent[i].type = "error"}

\* C27: when the client has read an error event, the assistant message
\* shows "Error: " and the message of the event, chunks before it or not,
\* and isLoading is false again.
C27_ErrorEventIsShown ==
  (fnOut.op = "finished" /\ ErrorsOf(fnIn.sent) # {}) =>
    /\ \A i \in ErrorsOf(fnIn.sent) : fnOut.content = "Error: " \o fnIn.sent[i].error
    /\ ~fnOut.isLoading

\* C28 as stated: however the output is cut into reads, the client handles
\* the events sent, each once and in order, and the assistant message is
\* the chunk contents one after the other.
C28_ContentIsTheChunks ==
  fnOut.op = "finished" =>
    /\ fnOut.parsed = fnIn.sent
    /\ fnOut.content = ChunksOf(fnIn.sent, 1)

\* C28: however the output is cut into reads, the client handles the events
\* sent, each once and in order: at every point the events handled are the
\* events whose line is complete in what was read.  At the end the assistant
\* message is the chunk contents one after the other when there is a chunk,
\* and the message of no response when there is none.
C28_SameForEverySegmentation ==
  fnOut.op \in {"reading", "finished"} =>
    /\ \E k \in 0..Len(fnIn.sent) :
         /\ fnOut.parsed = SubSeq(fnIn.sent, 1, k)
         /\ Len(WireOf(SubSeq(fnIn.sent, 1, k), 1)) - 1 <= fnOut.pos
         /\ k < Len(fnIn.sent) =>
              fnOut.pos < Len(WireOf(SubSeq(fnIn.sent, 1, k + 1), 1)) - 1
    /\ fnOut.op = "reading" => fnOut.content = ChunksOf(fnOut.parsed, 1)
    /\ fnOut.op = "finished" =>
         /\ fnOut.parsed = fnIn.sent
         /\ fnOut.content = (IF ChunksOf(fnIn.sent, 1) # "" THEN ChunksOf(fnIn.sent, 1)
                             ELSE NO_RESPONSE)

\* two chunks, one with a line feed in it, read in pieces that end in the
\* middle of a line: the buffer holds the start of the second line
C28_Witness ==
  /\ fnOut.op = "reading"
  /\ Len(fnIn.sent) = 4
  /\ fnIn.sent[1].content = "Hi" /\ fnIn.sent[2].content = "a\nb"
  /\ Len(fnOut.parsed) = 1
  /\ Len(fnOut.buffer) > 10 /\ SubSeq(fnOut.buffer, 1, 6) = "data: "

(***************************************************************************)
(* The range of the merged similarities (Spec).                            *)
(***************************************************************************)
SimilarityOf(docs, id) == (CHOOSE d \in Range(docs) : d.id = id).similarity

\* C29: with semantic similarities within [0, 1], no query counts a chunk
\* more often than there are valid keywords, so a keyword score is at most
\* 0.8 and below its cap of 0.9; a candidate of the keyword search alone has
\* that score plus 0.2, at most 1.0; a candidate of both searches has its
\* semantic similarity plus 0.15 once, capped at 1.0; and every candidate
\* that passed the threshold has at most 1.0.
C29_MergedAtMostOne ==
  /\ \A j \in DOMAIN kwAll :
       kwAll[j].matchCount <= Cardinality({k \in DOMAIN keywords : Len(keywords[k]) > 2})
  /\ \A j \in DOMAIN embeddingResults :
       embeddingResults[j].similarity >= 0 /\ embeddingResults[j].similarity <= 120
  /\ \A j \in DOMAIN keywordResults : keywordResults[j].similarity <= 96
  /\ MergedHybrid =>
       \A j \in DOMAIN filtered :
         LET id == filtered[j].id IN
         /\ filtered[j].similarity <= 120
         /\ id \in Ids(keywordResults) \ Ids(embeddingResults) =>
              filtered[j].similarity = SimilarityOf(keywordResults, id) + 24
         /\ id \in Ids(keywordResults) \cap Ids(embeddingResults) =>
              \E boosted \in {SimilarityOf(embeddingResults, id) + 18} :
                filtered[j].similarity = (IF boosted < 120 THEN boosted ELSE 120)

\* a candidate of both searches held at 1.0 by the cap, and a candidate of
\* the keyword search alone that contains every keyword, at 0.8 + 0.2
C29_Witness ==
  /\ MergedHybrid
  /\ \E j \in DOMAIN filtered :
       /\ filtered[j].id \in Ids(keywordResults) \cap Ids(embeddingResults)
       /\ SimilarityOf(embeddingResults, filtered[j].id) + 18 > 120
       /\ filtered[j].similarity = 120
  /\ \E j \in DOMAIN filtered :
       /\ filtered[j].id \in Ids(keywordResults) \ Ids(embeddingResults)
       /\ SimilarityOf(keywordResults, filtered[j].id) = 96
       /\ filtered[j].similarity = 120

(***************************************************************************)
(* Properties of the upload (SpecUpload).                                  *)
(***************************************************************************)
UploadValid ==
  fnIn.hasFile /\ fnIn.type = "application/pdf" /\ fnIn.size <= 10 * 1024 * 1024

\* the rows an upload of n chunks is to add: chunk i with the embedding of
\* its text
RowsOfUpload(n) ==
  [k \in 1..n |-> [content |-> <<"text of chunk", k - 1>>,
                   metadata |-> Meta("new.pdf", 1, k - 1),
                   embedding |-> <<"embedding of", <<"text of chunk", k - 1>>>>]]

\* C30: the store is as it was before the upload until the one insert,
\* which is made for a valid file with at least one chunk after every
\* embedding batch has returned, and puts chunk i with embedding i; an
\* upload that ends in any other way has answered 400 or 500 and left the
\* store as it was.
C30_StoreOnlyAfterAllSucceeded ==
  fnOut.op # "none" =>
    /\ fnOut.inserts <= 1
    /\ fnOut.inserts = 1 <=> (fnOut.op = "responded" /\ fnOut.status = 200)
    /\ fnOut.inserts = 0 => fnOut.store = StoreBefore
    /\ fnOut.inserts = 1 =>
         /\ UploadValid /\ fnIn.chunkCount > 0
         /\ fnOut.batches * 100 >= fnIn.chunkCount
         /\ (fnOut.batches - 1) * 100 < fnIn.chunkCount
         /\ fnOut.store = StoreBefore \o RowsOfUpload(fnIn.chunkCount)
    /\ (fnOut.op = "responded" /\ ~UploadValid) => fnOut.status = 400
    /\ (fnOut.op = "responded" /\ UploadValid /\ fnIn.chunkCount = 0) =>
         fnOut.status \in {400, 500}

\* 250 chunks embedded in three batches and stored after the two rows the
\* table held
C30_Witness ==
  /\ fnOut.op = "responded" /\ fnOut.status = 200
  /\ fnIn.chunkCount = 250 /\ fnOut.batches = 3
  /\ Len(fnOut.store) = 252
  /\ fnOut.store[252].embedding = <<"embedding of", <<"text of chunk", 249>>>>

====
